---- MODULE Spec2Model ----
(***************************************************************************)
(* A model of rst2gemtext (src/rst2gemtext.py): the Gemtext node model,    *)
(* the GemtextTranslator visitor driven by docutils' walkabout, and the    *)
(* GemtextWriter serializer.                                               *)
(*                                                                         *)
(* Python strings are sequences of one-character strings.  Python objects  *)
(* (Gemtext nodes) live in a heap, a sequence of records indexed by object *)
(* identity, so that aliasing (_current_node, a node re-homed in a group)  *)
(* and in-place mutation are those of the program.                         *)
(***************************************************************************)
EXTENDS Integers, Sequences, FiniteSets, TLC

\* ------------------------------------------------------------------ bounds

\* Longest buffer / marker range of the _split_nodes input enumeration.
MaxSplitLen == 3

MaxChildren == 3

MaxStart == 11

MaxCellLine == 4

MaxCellHeight == 2
\* the heading levels tried are -MaxLevel..MaxLevel
MaxLevel == 6
\* the numbers handed to the lower-alpha encoder are 1..MaxAlphaNumber
MaxAlphaNumber == 10000
\* the texts handed to the line-ending functions have at most MaxTextLen
\* characters
MaxTextLen == 6

\* --------------------------------------------------------- program constants

\* "-" * 80 (SeparatorNode, AdmonitionNode)
RuleWidth == 80
\* max(1, min(3, self.level))
MinTitleLevel == 1
MaxTitleLevel == 3

\* -------------------------------------------------------------------- text

LF == "\n"
CR == "\r"

\* Python's None where a str is expected (uri, rawtext, title): a value equal
\* to no string.
NoneStr == <<"<None>">>

IsStr(s) == s # NoneStr

\* bool(s) of a str-or-None value
Truthy(s) == s # NoneStr /\ s # <<>>

RECURSIVE ReplaceCRLF(_)
ReplaceCRLF(text) ==
  IF text = <<>> THEN <<>>
  ELSE IF Len(text) >= 2 /\ text[1] = CR /\ text[2] = LF
       THEN <<LF>> \o ReplaceCRLF(SubSeq(text, 3, Len(text)))
       ELSE <<text[1]>> \o ReplaceCRLF(Tail(text))

ReplaceChar(text, from, to) ==
  [i \in 1..Len(text) |-> IF text[i] = from THEN to ELSE text[i]]

\* the two replacements in the other order
convert_to_unix_end_of_line_CRFirst(text) ==
  ReplaceCRLF(ReplaceChar(text, CR, LF))

convert_to_unix_end_of_line(text) ==
  ReplaceChar(ReplaceCRLF(text), CR, LF)

remove_newlines(text) ==
  ReplaceChar(convert_to_unix_end_of_line(text), LF, " ")

\* str.strip() leaves a non-empty string
Whitespace == {" ", LF, CR, "\t"}
StripIsNonEmpty(text) == \E i \in 1..Len(text) : text[i] \notin Whitespace

\* len(text.split("\n"))
SplitCount(text) == 1 + Cardinality({i \in 1..Len(text) : text[i] = LF})

RECURSIVE Join(_, _)
\* sep.join(texts)
Join(texts, sep) ==
  IF texts = <<>> THEN <<>>
  ELSE IF Len(texts) = 1 THEN texts[1]
       ELSE texts[1] \o sep \o Join(Tail(texts), sep)

Rule == [i \in 1..RuleWidth |-> "-"]

Repeat(c, n) == [i \in 1..n |-> c]

Min2(a, b) == IF a < b THEN a ELSE b
Max2(a, b) == IF a > b THEN a ELSE b

\* ------------------------------------------------- numeric formatting

Digits == <<"0", "1", "2", "3", "4", "5", "6", "7", "8", "9">>

RECURSIVE _to_arabic(_)
_to_arabic(number) ==
  IF number < 10 THEN <<Digits[number + 1]>>
  ELSE _to_arabic(number \div 10) \o <<Digits[(number % 10) + 1]>>

glyphs ==
  <<"a", "b", "c", "d", "e", "f", "g", "h", "i", "j", "k", "l", "m",
    "n", "o", "p", "q", "r", "s", "t", "u", "v", "w", "x", "y", "z">>

RECURSIVE LowerAlphaLoop(_, _)
\* the while loop of _to_loweralpha; result is built least significant first
LowerAlphaLoop(number, result) ==
  IF number = 0 THEN result
  ELSE LowerAlphaLoop((number - 1) \div Len(glyphs),
                      result \o <<glyphs[((number - 1) % Len(glyphs)) + 1]>>)

Reverse(s) == [i \in 1..Len(s) |-> s[Len(s) + 1 - i]]

\* the encoder without the final reversal
_to_loweralpha_NoReverse(number) == LowerAlphaLoop(number, <<>>)

_to_loweralpha(number) == Reverse(LowerAlphaLoop(number, <<>>))

UpperOf(c) ==
  CASE c = "a" -> "A" [] c = "b" -> "B" [] c = "c" -> "C" [] c = "d" -> "D"
    [] c = "e" -> "E" [] c = "f" -> "F" [] c = "g" -> "G" [] c = "h" -> "H"
    [] c = "i" -> "I" [] c = "j" -> "J" [] c = "k" -> "K" [] c = "l" -> "L"
    [] c = "m" -> "M" [] c = "n" -> "N" [] c = "o" -> "O" [] c = "p" -> "P"
    [] c = "q" -> "Q" [] c = "r" -> "R" [] c = "s" -> "S" [] c = "t" -> "T"
    [] c = "u" -> "U" [] c = "v" -> "V" [] c = "w" -> "W" [] c = "x" -> "X"
    [] c = "y" -> "Y" [] c = "z" -> "Z" [] OTHER -> c

LowerOf(c) ==
  CASE c = "I" -> "i" [] c = "V" -> "v" [] c = "X" -> "x" [] c = "L" -> "l"
    [] c = "C" -> "c" [] c = "D" -> "d" [] c = "M" -> "m" [] OTHER -> c

_to_upperalpha(number) ==
  LET low == _to_loweralpha(number) IN [i \in 1..Len(low) |-> UpperOf(low[i])]

RomanNumeralMap ==
  << <<"M", 1000>>, <<"CM", 900>>, <<"D", 500>>, <<"CD", 400>>,
     <<"C", 100>>, <<"XC", 90>>, <<"L", 50>>, <<"XL", 40>>,
     <<"X", 10>>, <<"IX", 9>>, <<"V", 5>>, <<"IV", 4>>, <<"I", 1>> >>

RomanChars(numeral) ==
  CASE numeral = "CM" -> <<"C", "M">> [] numeral = "CD" -> <<"C", "D">>
    [] numeral = "XC" -> <<"X", "C">> [] numeral = "XL" -> <<"X", "L">>
    [] numeral = "IX" -> <<"I", "X">> [] numeral = "IV" -> <<"I", "V">>
    [] OTHER -> <<numeral>>

RECURSIVE toRoman(_, _)
\* docutils.utils.roman.toRoman: greedy over the numeral map from index k
toRoman(number, k) ==
  IF number = 0 \/ k > Len(RomanNumeralMap) THEN <<>>
  ELSE IF number >= RomanNumeralMap[k][2]
       THEN RomanChars(RomanNumeralMap[k][1])
              \o toRoman(number - RomanNumeralMap[k][2], k)
       ELSE toRoman(number, k + 1)

_to_upperroman(number) == toRoman(number, 1)

_to_lowerroman(number) ==
  LET up == toRoman(number, 1) IN [i \in 1..Len(up) |-> LowerOf(up[i])]

\* getattr(self, "_to_%s" % self.enumtype)(i)
convertor(enumtype, i) ==
  CASE enumtype = "arabic" -> _to_arabic(i)
    [] enumtype = "loweralpha" -> _to_loweralpha(i)
    [] enumtype = "upperalpha" -> _to_upperalpha(i)
    [] enumtype = "lowerroman" -> _to_lowerroman(i)
    [] enumtype = "upperroman" -> _to_upperroman(i)

\* ------------------------------------------------------------ references

\* Object references.  A Gemtext node's rst_node is a source-tree node, None
\* (LinkGroupNode(None)) or, for ListItemNode(node) in depart_list_item, a
\* Gemtext node; "is" compares the space and the identity.
NoneRef == [space |-> "none", id |-> 0]
RstRef(i) == [space |-> "rst", id |-> i]
GemRef(i) == [space |-> "gem", id |-> i]

\* --------------------------------------------------------- Gemtext node model

NodeGroupClasses ==
  {"NodeGroup", "BlockQuoteNode", "BulletListNode", "EnumaratedListNode",
   "SystemMessageNode", "LinkGroupNode", "FigureNode", "AdmonitionNode"}

\* isinstance(node, NodeGroup)
IsNodeGroup(obj) == obj.cls \in NodeGroupClasses

Node(cls, rst_node) ==
  [cls |-> cls, rst_node |-> rst_node, rawtext |-> <<>>]

NodeGroup(cls, rst_node) ==
  [cls |-> cls, rst_node |-> rst_node, rawtext |-> <<>>, nodes |-> <<>>]

ParagraphNode(rst_node) == Node("ParagraphNode", rst_node)

TitleNode(rst_node, level) ==
  [cls |-> "TitleNode", rst_node |-> rst_node, rawtext |-> <<>>,
   level |-> level]

PreformattedTextNode(rst_node, alt) ==
  [cls |-> "PreformattedTextNode", rst_node |-> rst_node, rawtext |-> <<>>,
   alt |-> alt]

BlockQuoteNode(rst_node) == NodeGroup("BlockQuoteNode", rst_node)

BulletListNode(rst_node) == NodeGroup("BulletListNode", rst_node)

ListItemNode(rst_node) == Node("ListItemNode", rst_node)

EnumaratedListNode(rst_node, enumtype, prefix, suffix, start) ==
  [cls |-> "EnumaratedListNode", rst_node |-> rst_node, rawtext |-> <<>>,
   nodes |-> <<>>, enumtype |-> enumtype, prefix |-> prefix,
   suffix |-> suffix, start |-> start]

SystemMessageNode(rst_node, level, source, line, type_) ==
  [cls |-> "SystemMessageNode", rst_node |-> rst_node, rawtext |-> <<>>,
   nodes |-> <<>>, level |-> level, source |-> source, line |-> line,
   type_ |-> type_]

LinkNode(rst_node, refname, uri, text) ==
  [cls |-> "LinkNode", rst_node |-> rst_node,
   rawtext |-> IF Truthy(text) THEN text ELSE uri,
   refname |-> refname, uri |-> uri]

LinkGroupNode(rst_node) == NodeGroup("LinkGroupNode", rst_node)

SeparatorNode(rst_node) == Node("SeparatorNode", rst_node)

RawNode(rst_node, format_) ==
  [cls |-> "RawNode", rst_node |-> rst_node, rawtext |-> <<>>,
   format |-> format_]

FigureNode(rst_node) == NodeGroup("FigureNode", rst_node)

AdmonitionNode(rst_node, type_) ==
  [cls |-> "AdmonitionNode", rst_node |-> rst_node, rawtext |-> <<>>,
   nodes |-> <<>>, type |-> type_, title |-> NoneStr]

\* The emoji of gen_title are single characters of the text.
gen_title(obj) ==
  IF Truthy(obj.title) THEN obj.title
  ELSE CASE obj.type = "note" ->
              <<"U+1F4DD", "U+FE0F", " ", "N", "o", "t", "e", ":">>
         [] obj.type = "hint" ->
              <<"U+1F4A1", "U+FE0F", " ", "H", "i", "n", "t">>
         [] obj.type = "tip" ->
              <<"U+1F4A1", "U+FE0F", " ", "T", "i", "p">>
         [] obj.type = "important" ->
              <<"U+203C", "U+FE0F", " ", "I", "m", "p", "o", "r", "t", "a",
                "n", "t">>
         [] obj.type = "attention" ->
              <<"U+26A0", "U+FE0F", " ", "A", "t", "t", "e", "n", "t", "i",
                "o", "n">>
         [] obj.type = "warning" ->
              <<"U+26A0", "U+FE0F", " ", "W", "a", "r", "n", "i", "n", "g">>
         [] obj.type = "caution" ->
              <<"U+26A0", "U+FE0F", " ", "C", "a", "u", "t", "i", "o", "n">>
         [] obj.type = "danger" ->
              <<"U+26A0", "U+FE0F", " ", "D", "a", "n", "g", "e", "r">>
         [] obj.type = "error" ->
              <<"U+26D4", "U+FE0F", " ", "E", "r", "r", "o", "r">>
         [] OTHER -> <<>>

\* A rendering: the text, or the exception raised while rendering.
Rendered(text) == [ok |-> TRUE, text |-> text, err |-> ""]
RenderError(err) == [ok |-> FALSE, text |-> <<>>, err |-> err]

RECURSIVE to_gemtext(_, _)
RECURSIVE RenderEach(_, _)

\* [node.to_gemtext() for node in nodes]: the renderings, or the first error
RenderEach(heap, ids) ==
  IF ids = <<>> THEN [ok |-> TRUE, texts |-> <<>>, err |-> ""]
  ELSE LET first == to_gemtext(heap, ids[1]) IN
       IF ~first.ok THEN [ok |-> FALSE, texts |-> <<>>, err |-> first.err]
       ELSE LET rest == RenderEach(heap, Tail(ids)) IN
            IF ~rest.ok THEN rest
            ELSE [ok |-> TRUE, texts |-> <<first.text>> \o rest.texts,
                  err |-> ""]

NodeGroup_to_gemtext(heap, obj) ==
  LET parts == RenderEach(heap, obj.nodes) IN
  IF parts.ok THEN Rendered(Join(parts.texts, <<LF>>))
  ELSE RenderError(parts.err)

\* the heading marker without the clamp
TitleNode_to_gemtext_Unclamped(obj) ==
  Rendered(Repeat("#", obj.level) \o <<" ">> \o obj.rawtext)

TitleNode_to_gemtext(obj) ==
  Rendered(Repeat("#", Max2(MinTitleLevel, Min2(MaxTitleLevel, obj.level)))
             \o <<" ">> \o obj.rawtext)

\* The backquote character (U+0060), which a TLA+ string cannot hold.
BQ == "U+0060"
Fence == <<BQ, BQ, BQ>>

PreformattedTextNode_to_gemtext(obj) ==
  Rendered(Fence \o obj.alt \o <<LF>> \o obj.rawtext \o <<LF>> \o Fence)

BlockQuoteNode_to_gemtext(heap, obj) ==
  LET parts == RenderEach(heap, obj.nodes) IN
  IF parts.ok
  THEN Rendered(Join([i \in 1..Len(parts.texts) |->
                        <<">", " ">> \o parts.texts[i]],
                     <<LF, ">", LF>>))
  ELSE RenderError(parts.err)

BulletListNode_to_gemtext(heap, obj) ==
  LET parts == RenderEach(heap, obj.nodes) IN
  IF parts.ok
  THEN Rendered(Join([i \in 1..Len(parts.texts) |->
                        IF heap[obj.nodes[i]].cls = "ListItemNode"
                        THEN <<"*", " ">> \o parts.texts[i]
                        ELSE parts.texts[i]],
                     <<LF>>))
  ELSE RenderError(parts.err)

\* the rendering whose counter advances at the list items only
EnumaratedListNode_to_gemtext_CountItems(heap, obj) ==
  LET parts == RenderEach(heap, obj.nodes)
      itemsBefore(k) ==
        Cardinality({j \in 1..(k - 1) : heap[obj.nodes[j]].cls = "ListItemNode"})
  IN
  IF parts.ok
  THEN Rendered(Join([k \in 1..Len(parts.texts) |->
                        IF heap[obj.nodes[k]].cls = "ListItemNode"
                        THEN <<"*", " ">> \o obj.prefix
                               \o convertor(obj.enumtype,
                                            obj.start + itemsBefore(k))
                               \o obj.suffix \o <<" ">> \o parts.texts[k]
                        ELSE parts.texts[k]],
                     <<LF>>))
  ELSE RenderError(parts.err)

EnumaratedListNode_to_gemtext(heap, obj) ==
  LET parts == RenderEach(heap, obj.nodes) IN
  IF obj.enumtype \notin
       {"arabic", "loweralpha", "upperalpha", "lowerroman", "upperroman"}
  THEN RenderError("AttributeError")
  ELSE IF parts.ok
  THEN Rendered(Join([k \in 1..Len(parts.texts) |->
                        IF heap[obj.nodes[k]].cls = "ListItemNode"
                        THEN <<"*", " ">> \o obj.prefix
                               \o convertor(obj.enumtype, obj.start + k - 1)
                               \o obj.suffix \o <<" ">> \o parts.texts[k]
                        ELSE parts.texts[k]],
                     <<LF>>))
  ELSE RenderError(parts.err)

\* the rendering that always writes the text after the URI
LinkNode_to_gemtext_AlwaysText(obj) ==
  IF ~Truthy(obj.uri) THEN RenderError("ValueError")
  ELSE Rendered(<<"=", ">", " ">> \o obj.uri \o <<" ">> \o obj.rawtext)

LinkNode_to_gemtext(obj) ==
  IF ~Truthy(obj.uri) THEN RenderError("ValueError")
  ELSE IF obj.rawtext = obj.uri THEN Rendered(<<"=", ">", " ">> \o obj.uri)
  ELSE Rendered(<<"=", ">", " ">> \o obj.uri \o <<" ">> \o obj.rawtext)

SeparatorNode_to_gemtext == Rendered(Rule)

AdmonitionNode_to_gemtext(heap, obj) ==
  LET body == NodeGroup_to_gemtext(heap, obj) IN
  IF body.ok
  THEN Rendered(Rule \o <<LF>> \o gen_title(obj) \o <<LF>> \o Rule \o <<LF>>
                  \o body.text \o <<LF>> \o Rule)
  ELSE body

\* node.to_gemtext(), by the class of the node
to_gemtext(heap, id) ==
  LET obj == heap[id] IN
  CASE obj.cls = "ParagraphNode" -> Rendered(remove_newlines(obj.rawtext))
    [] obj.cls = "ListItemNode" -> Rendered(remove_newlines(obj.rawtext))
    [] obj.cls = "TitleNode" -> TitleNode_to_gemtext(obj)
    [] obj.cls = "PreformattedTextNode" -> PreformattedTextNode_to_gemtext(obj)
    [] obj.cls = "BlockQuoteNode" -> BlockQuoteNode_to_gemtext(heap, obj)
    [] obj.cls = "BulletListNode" -> BulletListNode_to_gemtext(heap, obj)
    [] obj.cls = "EnumaratedListNode" ->
         EnumaratedListNode_to_gemtext(heap, obj)
    [] obj.cls = "LinkNode" -> LinkNode_to_gemtext(obj)
    [] obj.cls = "SeparatorNode" -> SeparatorNode_to_gemtext
    [] obj.cls = "RawNode" -> Rendered(obj.rawtext)
    [] obj.cls = "AdmonitionNode" -> AdmonitionNode_to_gemtext(heap, obj)
    [] OTHER -> NodeGroup_to_gemtext(heap, obj)

\* ----------------------------------------------------------- source tree

\* A source-tree (docutils) node is a record
\*   [tagname, parent, children, line, text, attributes, kids]
\* held in the sequence rst and identified by its index, which is its
\* identity; line = 0 is Python's None; text is the content of a Text node;
\* kids are the children a reference node holds when it is entered.

\* docutils TextElement kinds: astext() joins the children with "".
TextElementKinds ==
  {"paragraph", "title", "caption", "literal_block", "raw", "comment",
   "reference", "emphasis", "strong", "literal", "target", "line",
   "substitution_definition", "term"}

RECURSIVE astext(_, _)
RECURSIVE AstextEach(_, _)

AstextEach(rst, ids) ==
  IF ids = <<>> THEN <<>>
  ELSE <<astext(rst, ids[1])>> \o AstextEach(rst, Tail(ids))

\* docutils Node.astext()
astext(rst, r) ==
  CASE rst[r].tagname = "#text" -> rst[r].text
    [] rst[r].tagname = "image" ->
         IF "alt" \in DOMAIN rst[r].attributes
         THEN rst[r].attributes.alt ELSE <<>>
    [] OTHER ->
         Join(AstextEach(rst, rst[r].children),
              IF rst[r].tagname \in TextElementKinds THEN <<>>
              ELSE <<LF, LF>>)

RECURSIVE flatten_node_tree(_, _)
flatten_node_tree(heap, nodes) ==
  IF nodes = <<>> THEN <<>>
  ELSE (IF IsNodeGroup(heap[nodes[1]])
        THEN flatten_node_tree(heap, heap[nodes[1]].nodes)
        ELSE <<nodes[1]>>)
       \o flatten_node_tree(heap, Tail(nodes))

RECURSIVE search_lines_recursive(_, _)
RECURSIVE SearchLinesEach(_, _)

SearchLinesEach(rst, ids) ==
  IF ids = <<>> THEN <<>>
  ELSE search_lines_recursive(rst, ids[1]) \o SearchLinesEach(rst, Tail(ids))

search_lines_recursive(rst, r) ==
  (IF rst[r].line # 0 THEN <<r>> ELSE <<>>)
    \o SearchLinesEach(rst, rst[r].children)

get_node_end_line(rst, r) ==
  LET node_start_line == rst[r].line
      node_height == SplitCount(convert_to_unix_end_of_line(astext(rst, r)))
  IN  node_start_line + node_height - 1

\* ------------------------------------------------------------- translator

\* The translator object: its fields, the heap of Gemtext nodes its lists
\* refer to, and the exception a handler raised ("" when none).  current and
\* skipped are 0 for None.
NewTranslator ==
  [nodes |-> <<>>, messages |-> <<>>, current |-> 0, section_level |-> 0,
   skipped |-> 0, heap |-> <<>>, err |-> ""]

Raise(t, e) == [t EXCEPT !.err = e]

HasAttr(obj, name) == name \in DOMAIN obj

\* obj.name = value, whether or not the object had the attribute
SetAttr(obj, name, value) ==
  [n \in DOMAIN obj \cup {name} |-> IF n = name THEN value ELSE obj[n]]

\* The identity of the node the next constructor call creates.
NewId(t) == Len(t.heap) + 1

\* node = Class(...); self.nodes.append(node)
AppendNew(t, obj) ==
  [t EXCEPT !.heap = Append(@, obj), !.nodes = Append(@, Len(t.heap) + 1)]

_NOP_NODES == {"emphasis", "literal", "strong", "target"}

_SKIPPED_NODES == {"field_list", "comment", "substitution_definition", "topic"}

\* The index the for loop of _split_nodes leaves in i (1-based): the first
\* position whose rst_node is the marker, else the last position.
SplitIndex(t, marker) ==
  IF \E i \in 1..Len(t.nodes) : t.heap[t.nodes[i]].rst_node = marker
  THEN CHOOSE i \in 1..Len(t.nodes) :
         /\ t.heap[t.nodes[i]].rst_node = marker
         /\ \A j \in 1..(i - 1) : t.heap[t.nodes[j]].rst_node # marker
  ELSE Len(t.nodes)

\* the split at the last position whose rst_node is the marker
_split_nodes_Last(t, marker) ==
  IF Len(t.nodes) = 0
  THEN [t |-> Raise(t, "UnboundLocalError"), splitted |-> <<>>]
  ELSE LET i == CHOOSE i \in 1..Len(t.nodes) :
                  /\ (t.heap[t.nodes[i]].rst_node = marker
                        \/ (i = Len(t.nodes)
                             /\ \A j \in 1..Len(t.nodes) :
                                  t.heap[t.nodes[j]].rst_node # marker))
                  /\ \A j \in (i + 1)..Len(t.nodes) :
                       t.heap[t.nodes[j]].rst_node # marker
       IN
       [t |-> [t EXCEPT !.nodes = SubSeq(t.nodes, 1, i - 1)],
        splitted |-> SubSeq(t.nodes, i, Len(t.nodes))]

\* _split_nodes: the translator after the call and the returned list.  On an
\* empty buffer the loop variable is unbound and the slice raises.
_split_nodes(t, marker) ==
  IF Len(t.nodes) = 0
  THEN [t |-> Raise(t, "UnboundLocalError"), splitted |-> <<>>]
  ELSE LET i == SplitIndex(t, marker) IN
       [t |-> [t EXCEPT !.nodes = SubSeq(t.nodes, 1, i - 1)],
        splitted |-> SubSeq(t.nodes, i, Len(t.nodes))]

\* admonition

visit_admonition(t, r, type_) ==
  [AppendNew(t, AdmonitionNode(RstRef(r), type_)) EXCEPT !.current = 0]

depart_admonition(t, r) ==
  LET s == _split_nodes(t, RstRef(r)) IN
  IF s.t.err # "" THEN s.t
  ELSE
    LET admonition_node == s.splitted[1]
        nodes == Tail(s.splitted)
    IN
    IF ~HasAttr(s.t.heap[admonition_node], "type")
    THEN Raise(s.t, "AttributeError")
    ELSE IF s.t.heap[admonition_node].type = "None" /\ nodes = <<>>
    THEN Raise(s.t, "IndexError")
    ELSE
      LET popTitle == /\ s.t.heap[admonition_node].type = "None"
                      /\ s.t.heap[nodes[1]].cls = "TitleNode"
          body == IF popTitle THEN Tail(nodes) ELSE nodes
          titled == IF popTitle
                    THEN [s.t.heap EXCEPT ![admonition_node].title =
                            s.t.heap[nodes[1]].rawtext]
                    ELSE s.t.heap
      IN [s.t EXCEPT
            !.heap = [titled EXCEPT ![admonition_node].nodes = body],
            !.nodes = Append(@, admonition_node)]

\* block_quote, bullet_list

\* the links list without the flattening of the LinkGroups
LinksOf_NoFlatten(heap, nodes) ==
  SelectSeq(nodes, LAMBDA n : heap[n].cls \in {"LinkNode", "LinkGroupNode"})

RECURSIVE LinksOf(_, _)
\* the links list of depart_block_quote / depart_bullet_list
LinksOf(heap, nodes) ==
  IF nodes = <<>> THEN <<>>
  ELSE (CASE heap[nodes[1]].cls = "LinkNode" -> <<nodes[1]>>
          [] heap[nodes[1]].cls = "LinkGroupNode" -> heap[nodes[1]].nodes
          [] OTHER -> <<>>)
       \o LinksOf(heap, Tail(nodes))

\* the nodes appended to the group by depart_block_quote / depart_bullet_list
NonLinksOf(heap, nodes) ==
  SelectSeq(nodes, LAMBDA n : heap[n].cls \notin {"LinkNode", "LinkGroupNode"})

\* the "if links:" tail of depart_block_quote / depart_bullet_list
AppendLinks(t, links) ==
  IF links = <<>> THEN t
  ELSE IF Len(links) = 1 THEN [t EXCEPT !.nodes = Append(@, links[1])]
  ELSE AppendNew(t, [LinkGroupNode(NoneRef) EXCEPT !.nodes = links])

visit_block_quote(t, r) ==
  [AppendNew(t, BlockQuoteNode(RstRef(r))) EXCEPT !.current = 0]

depart_block_quote(t, r) ==
  LET s == _split_nodes(t, RstRef(r)) IN
  IF s.t.err # "" THEN s.t
  ELSE
    LET block_quote_node == s.splitted[1]
        nodes == Tail(s.splitted)
        links == LinksOf(s.t.heap, nodes)
        rest == NonLinksOf(s.t.heap, nodes)
    IN
    IF ~HasAttr(s.t.heap[block_quote_node], "nodes")
    THEN Raise(s.t, "AttributeError")
    ELSE
      LET kept ==
            IF s.t.heap[block_quote_node].nodes \o rest # <<>>
            THEN [s.t EXCEPT
                    !.heap = [@ EXCEPT ![block_quote_node].nodes = @ \o rest],
                    !.nodes = Append(@, block_quote_node)]
            ELSE s.t
      IN AppendLinks(kept, links)

visit_bullet_list(t, r) ==
  [AppendNew(t, BulletListNode(RstRef(r))) EXCEPT !.current = 0]

depart_bullet_list(t, r) ==
  LET s == _split_nodes(t, RstRef(r)) IN
  IF s.t.err # "" THEN s.t
  ELSE
    LET bullet_list_node == s.splitted[1]
        nodes == Tail(s.splitted)
        links == LinksOf(s.t.heap, nodes)
        rest == NonLinksOf(s.t.heap, nodes)
    IN
    IF ~HasAttr(s.t.heap[bullet_list_node], "nodes")
    THEN Raise(s.t, "AttributeError")
    ELSE
      LET kept ==
            IF s.t.heap[bullet_list_node].nodes \o rest # <<>>
            THEN [s.t EXCEPT
                    !.heap = [@ EXCEPT ![bullet_list_node].nodes = @ \o rest],
                    !.nodes = Append(@, bullet_list_node)]
            ELSE s.t
      IN AppendLinks(kept, links)

\* enumerated_list

visit_enumerated_list(t, rst, r) ==
  LET a == rst[r].attributes IN
  [AppendNew(t, EnumaratedListNode(RstRef(r), a.enumtype, a.prefix, a.suffix,
                                   IF "start" \in DOMAIN a THEN a.start
                                   ELSE 1))
     EXCEPT !.current = 0]

depart_enumerated_list(t, r) == depart_bullet_list(t, r)

\* figure

visit_figure(t, r) ==
  [AppendNew(t, FigureNode(RstRef(r))) EXCEPT !.current = 0]

RECURSIVE FoldFigure(_, _, _)
\* the for loop of depart_figure: figure_node.nodes (fnodes) after the
\* remaining collected nodes have been folded in
FoldFigure(heap, fnodes, nodes) ==
  IF nodes = <<>> THEN fnodes
  ELSE
    LET node == nodes[1]
        last == fnodes[Len(fnodes)]
        front == SubSeq(fnodes, 1, Len(fnodes) - 1)
        next ==
          IF /\ heap[node].cls = "LinkNode"
             /\ fnodes # <<>>
             /\ heap[last].cls = "LinkNode"
          THEN IF heap[last].uri = heap[node].uri
               THEN IF Truthy(heap[last].rawtext) /\ ~Truthy(heap[node].rawtext)
                    THEN front \o <<last>>
                    ELSE front \o <<node>>
               ELSE front \o <<node, last>>
          ELSE IF heap[node].cls = "ParagraphNode"
          THEN IF \E k \in 1..Len(fnodes) :
                    heap[fnodes[k]].rawtext = heap[node].rawtext
               THEN fnodes
               ELSE Append(fnodes, node)
          ELSE Append(fnodes, node)
    IN FoldFigure(heap, next, Tail(nodes))

depart_figure(t, r) ==
  LET s == _split_nodes(t, RstRef(r)) IN
  IF s.t.err # "" THEN s.t
  ELSE
    LET figure_node == s.splitted[1]
        nodes == Tail(s.splitted)
    IN
    IF ~HasAttr(s.t.heap[figure_node], "nodes")
    THEN Raise(s.t, "AttributeError")
    ELSE
      LET fnodes == FoldFigure(s.t.heap, s.t.heap[figure_node].nodes, nodes)
          folded == [s.t EXCEPT !.heap = [@ EXCEPT ![figure_node].nodes = fnodes]]
      IN
      IF fnodes = <<>> THEN Raise(folded, "IndexError")
      ELSE
        LET first == fnodes[1]
            caption == fnodes[Len(fnodes)]
        IN
        IF /\ s.t.heap[first].cls = "LinkNode"
           /\ s.t.heap[caption].cls = "ParagraphNode"
           /\ s.t.heap[first].rawtext = s.t.heap[first].uri
        THEN [folded EXCEPT
                !.heap = [@ EXCEPT
                            ![figure_node].nodes =
                               SubSeq(fnodes, 1, Len(fnodes) - 1),
                            ![first].rawtext = s.t.heap[caption].rawtext],
                !.nodes = Append(@, figure_node)]
        ELSE [folded EXCEPT !.nodes = Append(@, figure_node)]

\* image

visit_image(t, rst, r) ==
  LET a == rst[r].attributes IN
  AppendNew(t, LinkNode(RstRef(r), NoneStr, a.uri,
                        IF "alt" \in DOMAIN a THEN a.alt ELSE NoneStr))

\* list_item

visit_list_item(t, r) ==
  [AppendNew(t, ListItemNode(RstRef(r))) EXCEPT !.current = 0]

RECURSIVE ListItemLoop(_, _, _)
\* the for loop of depart_list_item, then its final "if": list_item_node is
\* the item being filled; a rendering that raises ends the loop
ListItemLoop(t, list_item_node, nodes) ==
  IF nodes = <<>>
  THEN IF t.heap[list_item_node].rawtext # <<>>
       THEN [t EXCEPT !.nodes = Append(@, list_item_node)]
       ELSE t
  ELSE
    LET node == nodes[1] IN
    IF t.heap[node].cls \in {"BulletListNode", "EnumaratedListNode"}
    THEN ListItemLoop(
           [t EXCEPT !.nodes = @ \o <<list_item_node, node>>,
                     !.heap = Append(@, ListItemNode(GemRef(node)))],
           Len(t.heap) + 1, Tail(nodes))
    ELSE IF t.heap[node].cls \in {"LinkNode", "LinkGroupNode"}
    THEN ListItemLoop([t EXCEPT !.nodes = Append(@, node)],
                      list_item_node, Tail(nodes))
    ELSE
      LET sep == IF t.heap[list_item_node].rawtext # <<>> THEN <<" ">>
                 ELSE <<>>
          spaced == [t EXCEPT !.heap[list_item_node].rawtext = @ \o sep]
          text == to_gemtext(t.heap, node)
      IN IF ~text.ok THEN Raise(spaced, text.err)
         ELSE ListItemLoop(
                [spaced EXCEPT !.heap[list_item_node].rawtext = @ \o text.text],
                list_item_node, Tail(nodes))

\* depart_list_item without the append of the item the enter handler created
depart_list_item_DropItem(t, r) ==
  LET s == _split_nodes(t, RstRef(r)) IN
  IF s.t.err # "" THEN s.t
  ELSE LET done == ListItemLoop(s.t, s.splitted[1], Tail(s.splitted)) IN
       [done EXCEPT !.nodes = SelectSeq(@, LAMBDA n : n # s.splitted[1])]

depart_list_item(t, r) ==
  LET s == _split_nodes(t, RstRef(r)) IN
  IF s.t.err # "" THEN s.t
  ELSE ListItemLoop(s.t, s.splitted[1], Tail(s.splitted))

\* literal_block

\* the alt of visit_literal_block: the first class other than "code"
FirstAlt(classes) ==
  IF \E i \in 1..Len(classes) : classes[i] # <<"c", "o", "d", "e">>
  THEN classes[CHOOSE i \in 1..Len(classes) :
                 /\ classes[i] # <<"c", "o", "d", "e">>
                 /\ \A j \in 1..(i - 1) : classes[j] = <<"c", "o", "d", "e">>]
  ELSE <<>>

visit_literal_block(t, rst, r) ==
  [AppendNew(t, PreformattedTextNode(RstRef(r),
                                     FirstAlt(rst[r].attributes.classes)))
     EXCEPT !.current = NewId(t)]

\* paragraph

visit_paragraph(t, r) ==
  [AppendNew(t, ParagraphNode(RstRef(r))) EXCEPT !.current = NewId(t)]

\* the leave handler that keeps the paragraph whatever its text
depart_paragraph_KeepBlank(t, r) ==
  LET s == _split_nodes(t, RstRef(r)) IN
  IF s.t.err # "" THEN s.t
  ELSE
    LET paragraph_node == s.splitted[1]
        nodes == Tail(s.splitted)
    IN
    IF /\ Len(nodes) = 1
       /\ s.t.heap[nodes[1]].rawtext = s.t.heap[paragraph_node].rawtext
    THEN [s.t EXCEPT !.nodes = Append(@, nodes[1])]
    ELSE
      LET kept == [s.t EXCEPT !.nodes = Append(@, paragraph_node)]
      IN IF nodes = <<>> THEN kept
         ELSE AppendNew(kept, [LinkGroupNode(RstRef(r)) EXCEPT
                                 !.nodes = nodes])

depart_paragraph(t, r) ==
  LET s == _split_nodes(t, RstRef(r)) IN
  IF s.t.err # "" THEN s.t
  ELSE
    LET paragraph_node == s.splitted[1]
        nodes == Tail(s.splitted)
    IN
    IF /\ Len(nodes) = 1
       /\ s.t.heap[nodes[1]].rawtext = s.t.heap[paragraph_node].rawtext
    THEN [s.t EXCEPT !.nodes = Append(@, nodes[1])]
    ELSE
      LET text == to_gemtext(s.t.heap, paragraph_node) IN
      IF ~text.ok THEN Raise(s.t, text.err)
      ELSE
        LET kept == IF StripIsNonEmpty(text.text)
                    THEN [s.t EXCEPT !.nodes = Append(@, paragraph_node)]
                    ELSE s.t
        IN IF nodes = <<>> THEN kept
           ELSE AppendNew(kept, [LinkGroupNode(RstRef(r)) EXCEPT
                                   !.nodes = nodes])

\* caption

visit_caption(t, r) == visit_paragraph(t, r)

depart_caption(t, r) == depart_paragraph(t, r)

\* raw

visit_raw(t, rst, r) ==
  [AppendNew(t, RawNode(RstRef(r), rst[r].attributes.format))
     EXCEPT !.current = NewId(t)]

GemtextFormats == {<<"g", "e", "m", "t", "e", "x", "t">>, <<"g", "m", "i">>}

\* depart_raw dropping the first node of the buffer instead of the last
depart_raw_PopFirst(t, r) ==
  IF t.nodes = <<>> THEN Raise(t, "IndexError")
  ELSE IF ~HasAttr(t.heap[t.nodes[Len(t.nodes)]], "format")
  THEN Raise(t, "AttributeError")
  ELSE IF t.heap[t.nodes[Len(t.nodes)]].format \notin GemtextFormats
  THEN [t EXCEPT !.nodes = Tail(@)]
  ELSE t

depart_raw(t, r) ==
  IF t.nodes = <<>> THEN Raise(t, "IndexError")
  ELSE IF ~HasAttr(t.heap[t.nodes[Len(t.nodes)]], "format")
  THEN Raise(t, "AttributeError")
  ELSE IF t.heap[t.nodes[Len(t.nodes)]].format \notin GemtextFormats
  THEN [t EXCEPT !.nodes = SubSeq(@, 1, Len(@) - 1)]
  ELSE t

\* reference

RECURSIVE ReferenceText(_, _)
\* the text the for loop of visit_reference builds from the children
ReferenceText(rst, children) ==
  IF children = <<>> THEN <<>>
  ELSE IF rst[children[1]].tagname = "image"
       THEN ReferenceText(rst, Tail(children))
       ELSE astext(rst, children[1]) \o ReferenceText(rst, Tail(children))

\* visit_reference with the test of the children after the append
visit_reference_AppendFirst(t, rst, r) ==
  LET a == rst[r].attributes
      children == rst[r].children
      text == remove_newlines(ReferenceText(rst, children))
      appended ==
        AppendNew(t, LinkNode(RstRef(r),
                              IF "refname" \in DOMAIN a THEN a.refname
                              ELSE NoneStr,
                              IF "refuri" \in DOMAIN a THEN a.refuri
                              ELSE NoneStr,
                              IF text # <<>> THEN text ELSE NoneStr))
  IN
  IF \E i \in 1..Len(children) :
       rst[children[i]].tagname \notin {"image", "#text"}
  THEN Raise(appended, "ValueError")
  ELSE appended

visit_reference(t, rst, r) ==
  LET a == rst[r].attributes
      children == rst[r].children
  IN
  IF \E i \in 1..Len(children) :
       rst[children[i]].tagname \notin {"image", "#text"}
  THEN Raise(t, "ValueError")
  ELSE
    LET text == remove_newlines(ReferenceText(rst, children)) IN
    AppendNew(t, LinkNode(RstRef(r),
                          IF "refname" \in DOMAIN a THEN a.refname ELSE NoneStr,
                          IF "refuri" \in DOMAIN a THEN a.refuri ELSE NoneStr,
                          IF text # <<>> THEN text ELSE NoneStr))

\* section

visit_section(t, r) == [t EXCEPT !.section_level = @ + 1]

\* the leave handler that forgets to count down
depart_section_NoDecrement(t, r) == t

depart_section(t, r) == [t EXCEPT !.section_level = @ - 1]

\* system_message

visit_system_message(t, rst, r) ==
  LET a == rst[r].attributes IN
  [AppendNew(t, SystemMessageNode(RstRef(r), a.level, a.source, a.line, a.type))
     EXCEPT !.current = 0]

\* depart_system_message appending the node to the buffer again
depart_system_message_ToBuffer(t, r) ==
  LET s == _split_nodes(t, RstRef(r)) IN
  IF s.t.err # "" THEN s.t
  ELSE
    LET system_message_node == s.splitted[1] IN
    [s.t EXCEPT !.heap = [@ EXCEPT ![system_message_node] =
                            SetAttr(@, "nodes", Tail(s.splitted))],
                !.nodes = Append(@, system_message_node)]

depart_system_message(t, r) ==
  LET s == _split_nodes(t, RstRef(r)) IN
  IF s.t.err # "" THEN s.t
  ELSE
    LET system_message_node == s.splitted[1] IN
    [s.t EXCEPT !.heap = [@ EXCEPT ![system_message_node] =
                            SetAttr(@, "nodes", Tail(s.splitted))],
                !.messages = Append(@, system_message_node)]

\* table

\* text.split("\n")
RECURSIVE SplitLines(_, _)
SplitLines(text, line) ==
  IF text = <<>> THEN <<line>>
  ELSE IF text[1] = LF THEN <<line>> \o SplitLines(Tail(text), <<>>)
  ELSE SplitLines(Tail(text), Append(line, text[1]))

\* A Python slice index clamped to 0..len
SliceIndex(i, len) ==
  IF i < 0 THEN Max2(len + i, 0) ELSE Min2(i, len)

\* seq[a:b]
PySlice(seq, a, b) ==
  SubSeq(seq, SliceIndex(a, Len(seq)) + 1, SliceIndex(b, Len(seq)))

\* len(re.match(r"^(\s*).*$", line).group(1))
RECURSIVE LeadingSpace(_)
LeadingSpace(line) ==
  IF line # <<>> /\ line[1] \in Whitespace \cup {"\f"}
  THEN 1 + LeadingSpace(Tail(line))
  ELSE 0

RECURSIVE LineRange(_, _, _)
\* the inner for loop of depart_table over the line-carrying source nodes;
\* range is [inf, line_min, line_max], inf meaning line_min is still math.inf
LineRange(rst, range, lined) ==
  IF lined = <<>> THEN range
  ELSE
    LET node_start_line == rst[lined[1]].line
        node_end_line == get_node_end_line(rst, lined[1])
        next ==
          IF range.inf \/ node_start_line < range.line_min
          THEN [range EXCEPT !.inf = FALSE, !.line_min = node_start_line]
          ELSE IF node_end_line > range.line_max
          THEN [range EXCEPT !.line_max = node_end_line]
          ELSE range
    IN LineRange(rst, next, Tail(lined))

RECURSIVE TableScan(_, _, _, _)
\* the outer for loop of depart_table over flatten_node_tree(nodes): the
\* title, the line range, and the exception raised ("" when none)
TableScan(rst, heap, scan, flat) ==
  IF flat = <<>> THEN scan
  ELSE IF heap[flat[1]].cls = "TitleNode"
  THEN TableScan(rst, heap, [scan EXCEPT !.title = heap[flat[1]].rawtext],
                 Tail(flat))
  ELSE IF heap[flat[1]].rst_node.space # "rst"
  THEN [scan EXCEPT !.err = "AttributeError"]
  ELSE TableScan(rst, heap,
                 [scan EXCEPT !.range =
                    LineRange(rst, @,
                      search_lines_recursive(rst, heap[flat[1]].rst_node.id))],
                 Tail(flat))

visit_table(t, r) ==
  [AppendNew(t, PreformattedTextNode(RstRef(r), <<>>)) EXCEPT !.current = 0]

depart_table(t, rst, original_rst, r) ==
  LET s == _split_nodes(t, RstRef(r)) IN
  IF s.t.err # "" THEN s.t
  ELSE
    LET preformatted_text_node == s.splitted[1]
        nodes == Tail(s.splitted)
        scan == TableScan(rst, s.t.heap,
                          [title |-> <<>>, err |-> "",
                           range |-> [inf |-> TRUE, line_min |-> 0,
                                      line_max |-> 0]],
                          flatten_node_tree(s.t.heap, nodes))
    IN
    IF scan.err # "" THEN Raise(s.t, scan.err)
    ELSE IF scan.range.inf THEN Raise(s.t, "TypeError")
    ELSE
      LET line_min == scan.range.line_min - 1
          line_max == scan.range.line_max + 1
          table_lines == PySlice(SplitLines(original_rst, <<>>),
                                 line_min - 1, line_max)
      IN
      IF table_lines = <<>> THEN Raise(s.t, "IndexError")
      ELSE
        LET indent == LeadingSpace(table_lines[1])
            body == Join([k \in 1..Len(table_lines) |->
                            PySlice(table_lines[k], indent,
                                    Len(table_lines[k]))],
                         <<LF>>)
            filled == [s.t.heap EXCEPT
                         ![preformatted_text_node].rawtext = @ \o body]
        IN
        IF Truthy(scan.title) /\ ~HasAttr(filled[preformatted_text_node], "alt")
        THEN [s.t EXCEPT
                !.heap = [filled EXCEPT ![preformatted_text_node] =
                            SetAttr(@, "alt", scan.title)],
                !.nodes = Append(@, preformatted_text_node)]
        ELSE [s.t EXCEPT
                !.heap = IF Truthy(scan.title)
                         THEN [filled EXCEPT
                                 ![preformatted_text_node].alt = scan.title]
                         ELSE filled,
                !.nodes = Append(@, preformatted_text_node)]

\* Text (leaf)

\* visit_Text ignoring the text when no node is accepting
visit_Text_Ignore(t, rst, r) ==
  IF t.current = 0 THEN t
  ELSE [t EXCEPT !.heap[t.current].rawtext = @ \o astext(rst, r)]

visit_Text(t, rst, r) ==
  IF t.current = 0 THEN Raise(t, "AttributeError")
  ELSE [t EXCEPT !.heap[t.current].rawtext = @ \o astext(rst, r)]

\* title

visit_title(t, r) ==
  [AppendNew(t, TitleNode(RstRef(r), t.section_level))
     EXCEPT !.current = NewId(t)]

\* transition

visit_transition(t, r) == AppendNew(t, SeparatorNode(RstRef(r)))

\* default

default_visit(t, r) == t

default_departure(t, r) == t

\* dispatch

TypedAdmonitions ==
  {"attention", "caution", "danger", "error", "hint", "important", "note",
   "tip", "warning"}

\* GenericNodeVisitor.dispatch_visit: visit_<kind> when the translator
\* defines it, default_visit otherwise
generic_visit(t, rst, original_rst, r) ==
  LET tag == rst[r].tagname IN
  CASE tag = "admonition" -> visit_admonition(t, r, "None")
    [] tag \in TypedAdmonitions -> visit_admonition(t, r, tag)
    [] tag = "block_quote" -> visit_block_quote(t, r)
    [] tag = "bullet_list" -> visit_bullet_list(t, r)
    [] tag = "caption" -> visit_caption(t, r)
    [] tag = "enumerated_list" -> visit_enumerated_list(t, rst, r)
    [] tag = "figure" -> visit_figure(t, r)
    [] tag = "image" -> visit_image(t, rst, r)
    [] tag = "list_item" -> visit_list_item(t, r)
    [] tag = "literal_block" -> visit_literal_block(t, rst, r)
    [] tag = "paragraph" -> visit_paragraph(t, r)
    [] tag = "raw" -> visit_raw(t, rst, r)
    [] tag = "reference" -> visit_reference(t, rst, r)
    [] tag = "section" -> visit_section(t, r)
    [] tag = "system_message" -> visit_system_message(t, rst, r)
    [] tag = "table" -> visit_table(t, r)
    [] tag = "#text" -> visit_Text(t, rst, r)
    [] tag = "title" -> visit_title(t, r)
    [] tag = "transition" -> visit_transition(t, r)
    [] OTHER -> default_visit(t, r)

generic_departure(t, rst, original_rst, r) ==
  LET tag == rst[r].tagname IN
  CASE tag = "admonition" -> depart_admonition(t, r)
    [] tag \in TypedAdmonitions -> depart_admonition(t, r)
    [] tag = "block_quote" -> depart_block_quote(t, r)
    [] tag = "bullet_list" -> depart_bullet_list(t, r)
    [] tag = "caption" -> depart_caption(t, r)
    [] tag = "enumerated_list" -> depart_enumerated_list(t, r)
    [] tag = "figure" -> depart_figure(t, r)
    [] tag = "list_item" -> depart_list_item(t, r)
    [] tag = "paragraph" -> depart_paragraph(t, r)
    [] tag = "raw" -> depart_raw(t, r)
    [] tag = "section" -> depart_section(t, r)
    [] tag = "system_message" -> depart_system_message(t, r)
    [] tag = "table" -> depart_table(t, rst, original_rst, r)
    [] OTHER -> default_departure(t, r)

\* dispatch_visit without its first test: the marker is set but the events
\* below the opaque node are dispatched
dispatch_visit_NoSkipTest(t, rst, original_rst, r) ==
  IF rst[r].tagname \in _SKIPPED_NODES
  THEN IF t.skipped # 0 THEN t ELSE [t EXCEPT !.skipped = r]
  ELSE IF rst[r].tagname \in _NOP_NODES THEN t
  ELSE generic_visit(t, rst, original_rst, r)

dispatch_visit(t, rst, original_rst, r) ==
  IF t.skipped # 0 THEN t
  ELSE IF rst[r].tagname \in _SKIPPED_NODES THEN [t EXCEPT !.skipped = r]
  ELSE IF rst[r].tagname \in _NOP_NODES THEN t
  ELSE generic_visit(t, rst, original_rst, r)

\* dispatch_departure clearing the marker on the leave of any opaque node
\* (a test by kind, not by identity)
dispatch_departure_ByKind(t, rst, original_rst, r) ==
  IF t.skipped # 0
  THEN IF rst[r].tagname \in _SKIPPED_NODES THEN [t EXCEPT !.skipped = 0]
       ELSE t
  ELSE IF rst[r].tagname \in _NOP_NODES THEN t
  ELSE generic_departure(t, rst, original_rst, r)

dispatch_departure(t, rst, original_rst, r) ==
  IF t.skipped # 0
  THEN IF t.skipped = r THEN [t EXCEPT !.skipped = 0] ELSE t
  ELSE IF rst[r].tagname \in _NOP_NODES THEN t
  ELSE generic_departure(t, rst, original_rst, r)

RECURSIVE RenderedOnly(_, _)
\* the renderings of the nodes that render, the others left out
RenderedOnly(heap, ids) ==
  IF ids = <<>> THEN <<>>
  ELSE (IF to_gemtext(heap, ids[1]).ok THEN <<to_gemtext(heap, ids[1]).text>>
        ELSE <<>>)
       \o RenderedOnly(heap, Tail(ids))

\* the join leaving out the nodes whose rendering raises
translate_output_Partial(t) ==
  Rendered(Join(RenderedOnly(t.heap, t.nodes), <<LF, LF>>) \o <<LF>>)

\* the join with a single newline between the nodes
translate_output_OneNewline(t) ==
  LET parts == RenderEach(t.heap, t.nodes) IN
  IF parts.ok THEN Rendered(Join(parts.texts, <<LF>>) \o <<LF>>)
  ELSE RenderError(parts.err)

\* the join with no newline appended
translate_output_NoTrailingNewline(t) ==
  LET parts == RenderEach(t.heap, t.nodes) IN
  IF parts.ok THEN Rendered(Join(parts.texts, <<LF, LF>>))
  ELSE RenderError(parts.err)

\* the join of GemtextWriter.translate: the output text or the exception
translate_output(t) ==
  LET parts == RenderEach(t.heap, t.nodes) IN
  IF parts.ok THEN Rendered(Join(parts.texts, <<LF, LF>>) \o <<LF>>)
  ELSE RenderError(parts.err)

\* ------------------------------------------------------------- the walk

VARIABLES
  rst,           \* the source tree built so far (document._children, recursively)
  original_rst,  \* document._original_rst
  stack,         \* walkabout's recursion: the open source nodes, outermost first
  visitor,       \* writer.visitor, the GemtextTranslator
  output,        \* writer.output (NoneStr until assigned)
  pc,            \* where GemtextWriter.translate / the utility call stands
  arg,           \* the argument of the utility call under check
  returned       \* the value the utility call returned

vars == <<rst, original_rst, stack, visitor, output, pc, arg, returned>>

NoArg == [marker |-> NoneRef]

\* A source-node template: what the parser may hand over as the next node.
Tpl(tagname, line, text, attributes, kids) ==
  [tagname |-> tagname, line |-> line, text |-> text,
   attributes |-> attributes, kids |-> kids]

NoAttributes == [classes |-> <<>>]

Plain(tagname) == Tpl(tagname, 0, <<>>, NoAttributes, <<>>)

Text(text) == Tpl("#text", 0, text, NoAttributes, <<>>)

\* The source node a template becomes, as a child of parent with the given
\* children.
RstNode(tpl, parent, children) ==
  [tagname |-> tpl.tagname, parent |-> parent, children |-> children,
   line |-> tpl.line, text |-> tpl.text, attributes |-> tpl.attributes]

\* docutils' document structure: the kinds a node of a kind may hold.
InlineKinds ==
  {"#text", "emphasis", "strong", "literal", "reference", "image", "target",
   "inline"}

BodyKinds ==
  {"paragraph", "block_quote", "bullet_list", "enumerated_list",
   "literal_block", "raw", "comment", "field_list", "substitution_definition",
   "topic", "system_message", "table", "figure", "image", "reference",
   "target", "rubric", "admonition"} \cup TypedAdmonitions

\* the kinds that hold inline content
InlineParents ==
  {"paragraph", "title", "caption", "rubric", "emphasis", "strong", "literal",
   "inline", "substitution_definition", "field_name"}

ChildKinds(tagname) ==
  CASE tagname = "document" -> BodyKinds \cup {"section", "transition"}
    [] tagname = "section" ->
         BodyKinds \cup {"section", "transition", "title"}
    [] tagname \in InlineParents -> InlineKinds
    [] tagname \in {"literal_block", "raw", "comment"} -> {"#text"}
    [] tagname = "reference" -> {"#text", "image", "emphasis"}
    [] tagname \in {"block_quote", "list_item", "entry", "field_body",
                    "legend"} -> BodyKinds
    [] tagname = "system_message" -> {"paragraph", "literal_block"}
    [] tagname \in {"bullet_list", "enumerated_list"} -> {"list_item"}
    [] tagname = "figure" -> {"image", "reference", "caption", "legend"}
    [] tagname = "table" -> {"title", "entry"}
    [] tagname \in TypedAdmonitions -> BodyKinds
    [] tagname \in {"admonition", "topic"} -> BodyKinds \cup {"title"}
    [] tagname = "field_list" -> {"field_name", "field_body"}
    [] OTHER -> {}

\* the parser may hand the template over as a child of a node of the kind: a
\* reference among body elements is the one an image target makes and holds
\* images only
Admissible(tpl, tagname) ==
  /\ tpl.tagname \in ChildKinds(tagname)
  /\ (tpl.tagname = "reference" /\ tagname \notin InlineParents)
       => \A k \in 1..Len(tpl.kids) : tpl.kids[k].tagname = "image"

Top == stack[Len(stack)]

\* the open node has been handed all the children it holds so far
AllVisited == Top.visited = Len(rst[Top.id].children)

\* the frame of a node entered now; before is the translator as the enter
\* event found it (history, read by no handler)
Frame(r) == [id |-> r, visited |-> 0, before |-> visitor]

\* what an event's handler leaves: the translator, and the walk aborted when
\* the handler raised
Deliver(t) ==
  /\ visitor' = t
  /\ pc' = IF t.err # "" THEN "failed" ELSE pc

\* The raw source texts of the documents walked (four lines, two indented).
OriginalSources == {<<" ", "x", LF, " ", "y", LF, "z", LF, "w">>}

InitWalk ==
  /\ rst = <<>>
  /\ original_rst \in OriginalSources
  /\ stack = <<>>
  /\ visitor = NewTranslator
  /\ output = NoneStr
  /\ pc = "walk"
  /\ arg = NoArg
  /\ returned = <<>>

\* document.walkabout(visitor) enters the document node
WalkDocument ==
  /\ pc = "walk"
  /\ rst = <<>>
  /\ rst' = <<RstNode(Plain("document"), 0, <<>>)>>
  /\ stack' = <<Frame(1)>>
  /\ Deliver(dispatch_visit(visitor, rst', original_rst, 1))
  /\ UNCHANGED <<original_rst, output, arg, returned>>

\* walkabout reaches a new child of the open node: the enter event.  A node
\* arrives with the children its template declares (a reference), the others
\* grow as the walk goes.
Enter(tpl, maxNodes, maxDepth) ==
  /\ pc = "walk"
  /\ stack # <<>>
  /\ AllVisited
  /\ rst[Top.id].tagname # "reference"
  /\ Admissible(tpl, rst[Top.id].tagname)
  /\ Len(stack) <= maxDepth
  /\ Len(rst) + Len(tpl.kids) <= maxNodes
  /\ LET r == Len(rst) + 1
         kidIds == [k \in 1..Len(tpl.kids) |-> r + k]
     IN
     /\ rst' = [Append(rst, RstNode(tpl, Top.id, kidIds))
                  EXCEPT ![Top.id].children = Append(@, r)]
                \o [k \in 1..Len(tpl.kids) |-> RstNode(tpl.kids[k], r, <<>>)]
     /\ stack' = Append([stack EXCEPT ![Len(stack)].visited = @ + 1], Frame(r))
     /\ Deliver(dispatch_visit(visitor, rst', original_rst, r))
  /\ UNCHANGED <<original_rst, output, arg, returned>>

\* walkabout reaches the next child an open node already holds
Descend ==
  /\ pc = "walk"
  /\ stack # <<>>
  /\ ~AllVisited
  /\ LET r == rst[Top.id].children[Top.visited + 1] IN
     /\ stack' = Append([stack EXCEPT ![Len(stack)].visited = @ + 1], Frame(r))
     /\ Deliver(dispatch_visit(visitor, rst, original_rst, r))
  /\ UNCHANGED <<rst, original_rst, output, arg, returned>>

\* walkabout is done with the open node: the leave event; leaving the
\* document ends the walk.  The parser makes no raw or literal block without
\* a text.
Leave ==
  /\ pc = "walk"
  /\ stack # <<>>
  /\ AllVisited
  /\ rst[Top.id].tagname \in {"raw", "literal_block"}
       => rst[Top.id].children # <<>>
  /\ stack' = SubSeq(stack, 1, Len(stack) - 1)
  /\ LET t == dispatch_departure(visitor, rst, original_rst, Top.id) IN
     /\ visitor' = t
     /\ pc' = IF t.err # "" THEN "failed"
              ELSE IF Len(stack) = 1 THEN "generate" ELSE "walk"
  /\ UNCHANGED <<rst, original_rst, output, arg, returned>>

\* the end of GemtextWriter.translate: the hook, then self.output = ...
Generate ==
  /\ pc = "generate"
  /\ LET text == translate_output(visitor) IN
     IF text.ok
     THEN output' = text.text /\ pc' = "done"
     ELSE output' = output /\ pc' = "failed"
  /\ UNCHANGED <<rst, original_rst, stack, visitor, arg, returned>>

\* ------------------------------------------------------------- the inputs

TextA == Text(<<"a">>)
TextB == Text(<<"b">>)
\* a text whose last character is a line break
TextNL == Text(<<"a", LF>>)

Uri == <<"u">>

SystemMessageTpl ==
  Tpl("system_message", 0, <<>>,
      [classes |-> <<>>, level |-> 2, line |-> 1, source |-> <<"d">>,
       type |-> <<"W">>],
      <<>>)

\* a reference the transforms resolved, and one they did not
ResolvedReference ==
  Tpl("reference", 0, <<>>, [classes |-> <<>>, refuri |-> Uri], <<TextA>>)
UnresolvedReference ==
  Tpl("reference", 0, <<>>, [classes |-> <<>>, refname |-> <<"r">>],
      <<TextA>>)

ImageTpl == Tpl("image", 0, <<>>, [classes |-> <<>>, uri |-> Uri], <<>>)

RawTpl(format) ==
  Tpl("raw", 0, <<>>, [classes |-> <<>>, format |-> format], <<>>)

\* The kinds of the walks that check the dispatch: the opaque kinds, the
\* pass-through kinds, an unrecognized kind (rubric) and recognized ones.
DispatchKinds ==
  {Plain("topic"), Plain("comment"), Plain("field_list"),
   Plain("substitution_definition"), Plain("field_body"),
   Plain("paragraph"), Plain("emphasis"), SystemMessageTpl, UnresolvedReference, ImageTpl,
   TextA}

\* Most source nodes below the document node, and their deepest nesting, in
\* the walks of Spec.
MaxDispatchNodes == 4
MaxDispatchDepth == 3

Next ==
  \/ WalkDocument
  \/ \E tpl \in DispatchKinds : Enter(tpl, MaxDispatchNodes, MaxDispatchDepth)
  \/ Descend
  \/ Leave
  \/ Generate

Spec == InitWalk /\ [][Next]_vars

\* The kinds of the walks that check the fatal conditions: a block quote, a
\* table and its cells (entry stands for the tgroup/tbody/row/entry chain, all
\* of kinds the translator does not know), a paragraph carrying a source line,
\* references left unresolved or holding inline markup, and an unrecognized
\* kind holding text (rubric).
BadReference ==
  Tpl("reference", 0, <<>>, [classes |-> <<>>, refuri |-> Uri],
      <<Plain("emphasis")>>)

LinedParagraph == Tpl("paragraph", 2, <<>>, NoAttributes, <<>>)

ErrorKinds ==
  {Plain("block_quote"), Plain("table"), Plain("entry"), LinedParagraph,
   Plain("rubric"), TextB, UnresolvedReference, BadReference}

MaxErrorNodes == 6
MaxErrorDepth == 4

NextErrors ==
  \/ WalkDocument
  \/ \E tpl \in ErrorKinds : Enter(tpl, MaxErrorNodes, MaxErrorDepth)
  \/ Descend
  \/ Leave
  \/ Generate

SpecErrors == InitWalk /\ [][NextErrors]_vars

\* The kinds of the walks that check the serializer: leaves of every
\* text-accepting kind, texts with and without a final line break, an image
\* and a transition.
OutputKinds ==
  {Plain("paragraph"), Plain("literal_block"), RawTpl(<<"g", "m", "i">>),
   RawTpl(<<"h", "t", "m", "l">>), ImageTpl, Plain("transition"), TextA,
   TextNL}

MaxOutputNodes == 4
MaxOutputDepth == 2

NextOutput ==
  \/ WalkDocument
  \/ \E tpl \in OutputKinds : Enter(tpl, MaxOutputNodes, MaxOutputDepth)
  \/ Leave
  \/ Generate

SpecOutput == InitWalk /\ [][NextOutput]_vars

\* The kinds of the walks that check the section depth: nested sections,
\* titles (of sections and, skipped, of a topic) and texts.
SectionKinds == {Plain("section"), Plain("title"), Plain("topic"), TextA}

MaxSectionNodes == 6
MaxSectionDepth == 5

NextSections ==
  \/ WalkDocument
  \/ \E tpl \in SectionKinds : Enter(tpl, MaxSectionNodes, MaxSectionDepth)
  \/ Leave
  \/ Generate

SpecSections == InitWalk /\ [][NextSections]_vars

\* The kinds of the walks that check the paragraph leave handler: texts,
\* references whose text is on one line or on two, and an image.
TwoLineReference ==
  Tpl("reference", 0, <<>>, [classes |-> <<>>, refuri |-> Uri],
      <<Text(<<"a", LF, "b">>)>>)

ParagraphKinds ==
  {Plain("paragraph"), TextA, Text(<<" ">>), ResolvedReference,
   TwoLineReference, ImageTpl}

MaxParagraphNodes == 5
MaxParagraphDepth == 2

NextParagraphs ==
  \/ WalkDocument
  \/ \E tpl \in ParagraphKinds :
       Enter(tpl, MaxParagraphNodes, MaxParagraphDepth)
  \/ Descend
  \/ Leave
  \/ Generate

SpecParagraphs == InitWalk /\ [][NextParagraphs]_vars

\* The kinds of the walks that check the block quote and list leave
\* handlers: quotes, bullet and enumerated lists and their items, paragraphs,
\* texts and images (the Links).
EnumeratedListTpl ==
  Tpl("enumerated_list", 0, <<>>,
      [classes |-> <<>>, enumtype |-> "arabic", prefix |-> <<>>,
       suffix |-> <<".">>],
      <<>>)

GroupKinds ==
  {Plain("block_quote"), Plain("bullet_list"), EnumeratedListTpl,
   Plain("list_item"), Plain("paragraph"), TextA, ImageTpl}

MaxGroupNodes == 5
MaxGroupDepth == 4

NextGroups ==
  \/ WalkDocument
  \/ \E tpl \in GroupKinds : Enter(tpl, MaxGroupNodes, MaxGroupDepth)
  \/ Leave
  \/ Generate

SpecGroups == InitWalk /\ [][NextGroups]_vars

\* The kinds of the walks that check the discipline of the buffer: lists,
\* items, paragraphs, raw blocks that are kept (gmi) and dropped (html),
\* texts and images.
StackKinds ==
  {Plain("bullet_list"), Plain("list_item"), Plain("paragraph"),
   RawTpl(<<"g", "m", "i">>), RawTpl(<<"h", "t", "m", "l">>), TextA, ImageTpl}

MaxStackNodes == 5
MaxStackDepth == 4

NextStack ==
  \/ WalkDocument
  \/ \E tpl \in StackKinds : Enter(tpl, MaxStackNodes, MaxStackDepth)
  \/ Leave
  \/ Generate

SpecStack == InitWalk /\ [][NextStack]_vars

\* The calls of _split_nodes on every buffer of at most MaxSplitLen nodes
\* whose back-references are among MaxSplitLen + 1 source nodes, with every
\* one of these as the marker.
SplitBuffers ==
  UNION {[1..n -> 1..(MaxSplitLen + 1)] : n \in 0..MaxSplitLen}

InitSplit ==
  /\ rst = <<>>
  /\ original_rst = <<>>
  /\ stack = <<>>
  /\ \E refs \in SplitBuffers :
       visitor = [NewTranslator EXCEPT
                    !.heap = [i \in 1..Len(refs) |-> ParagraphNode(RstRef(refs[i]))],
                    !.nodes = [i \in 1..Len(refs) |-> i]]
  /\ output = NoneStr
  /\ pc = "call"
  /\ \E m \in 1..(MaxSplitLen + 1) : arg = [marker |-> RstRef(m)]
  /\ returned = <<>>

\* splitted = self._split_nodes(rst_node)
SplitCall ==
  /\ pc = "call"
  /\ LET s == _split_nodes(visitor, arg.marker) IN
     /\ visitor' = s.t
     /\ returned' = s.splitted
     /\ pc' = IF s.t.err # "" THEN "raised" ELSE "returned"
  /\ UNCHANGED <<rst, original_rst, stack, output, arg>>

NextSplit == SplitCall

SpecSplit == InitSplit /\ [][NextSplit]_vars

\* Finished Gemtext nodes as inputs.  A shape is a node and, for a group,
\* the nodes it holds; Collect puts the nodes of shapes in the heap.
Shape(obj, members) == [obj |-> obj, members |-> members]

RECURSIVE Collect(_, _, _)
Collect(heap, nodes, shapes) ==
  IF shapes = <<>> THEN [heap |-> heap, nodes |-> nodes]
  ELSE LET id == Len(heap) + 1
           shape == shapes[1]
           held == [i \in 1..Len(shape.members) |->
                      [shape.members[i] EXCEPT !.rst_node = RstRef(id + i + 2)]]
           obj == IF shape.members = <<>>
                  THEN [shape.obj EXCEPT !.rst_node = RstRef(id + 2)]
                  ELSE [shape.obj EXCEPT
                          !.rst_node = RstRef(id + 2),
                          !.nodes = [i \in 1..Len(held) |-> id + i]]
       IN Collect(Append(heap, obj) \o held, Append(nodes, id), Tail(shapes))

\* the translator when the leave handler of source node 2 is called: one
\* node appended before the construct was entered, the placeholder of the
\* construct and the collected children
LeaveBuffer(placeholder, shapes) ==
  LET c == Collect(<<SeparatorNode(RstRef(3)),
                     [placeholder EXCEPT !.rst_node = RstRef(2)]>>,
                   <<1, 2>>, shapes)
  IN [NewTranslator EXCEPT !.heap = c.heap, !.nodes = c.nodes]

ShapesUpTo(shapes, n) == UNION {[1..k -> shapes] : k \in 0..n}

WithText(obj, text) == [obj EXCEPT !.rawtext = text]

ParagraphShape(text) == Shape(WithText(ParagraphNode(NoneRef), text), <<>>)

LinkShape(uri, text) == Shape(LinkNode(NoneRef, NoneStr, uri, text), <<>>)

\* The calls of the pure functions: TitleNode.to_gemtext on every level of
\* -MaxLevel..MaxLevel, _to_loweralpha on 1..MaxAlphaNumber, LinkNode(...)
\* and its to_gemtext on every combination of a text and a URI that are None,
\* empty or not, equal or not, and the two line-ending functions on every
\* text of at most MaxTextLen characters over CR, LF and a letter.
TitleTexts == {<<>>, <<"t">>}

LinkStrings == {NoneStr, <<>>, <<"u">>, <<"t">>, <<"u", " ", "t">>}

RECURSIVE TextsOfLen(_)
TextsOfLen(n) ==
  IF n = 0 THEN {<<>>}
  ELSE {<<c>> \o t : c \in {CR, LF, "a"}, t \in TextsOfLen(n - 1)}

LineEndingTexts == UNION {TextsOfLen(n) : n \in 0..MaxTextLen}

\* the children of an enumerated list: an item, and the Bullet List that
\* the leave of an item with a nested list puts after the item
EnumeratedShapes ==
  {Shape(WithText(ListItemNode(NoneRef), <<"a">>), <<>>),
   Shape(BulletListNode(NoneRef),
         <<WithText(ListItemNode(NoneRef), <<"b">>)>>)}

\* the attributes the parser gives an enumerated list, start being optional
EnumeratedAttributes ==
  LET base == {[classes |-> <<>>, enumtype |-> e, prefix |-> f[1],
                suffix |-> f[2]] :
                 e \in {"arabic", "loweralpha"},
                 f \in {<<<<>>, <<".">>>>, <<<<"(">>, <<")">>>>}}
  IN base \cup {[classes |-> a.classes, enumtype |-> a.enumtype,
                  prefix |-> a.prefix, suffix |-> a.suffix, start |-> n] :
                   a \in base, n \in 1..MaxStart}

FunctionCalls ==
  {[fn |-> "EnumaratedListNode.to_gemtext", attributes |-> a, shapes |-> c] :
     a \in EnumeratedAttributes,
     c \in ShapesUpTo(EnumeratedShapes, MaxChildren)}
  \cup
  {[fn |-> "TitleNode.to_gemtext", level |-> l, text |-> t] :
     l \in (0 - MaxLevel)..MaxLevel, t \in TitleTexts}
  \cup {[fn |-> "_to_loweralpha", number |-> n] : n \in 1..MaxAlphaNumber}
  \cup {[fn |-> "LinkNode.to_gemtext", uri |-> u, text |-> t] :
          u \in LinkStrings, t \in LinkStrings}
  \cup {[fn |-> f, text |-> t] :
          f \in {"remove_newlines", "convert_to_unix_end_of_line"},
          t \in LineEndingTexts}

InitFunctions ==
  /\ rst = <<>>
  /\ original_rst = <<>>
  /\ stack = <<>>
  /\ visitor = NewTranslator
  /\ output = NoneStr
  /\ pc = "call"
  /\ arg \in FunctionCalls
  /\ returned = <<>>

Return(value) ==
  /\ returned' = value
  /\ pc' = "returned"
  /\ UNCHANGED <<rst, original_rst, stack, visitor, output, arg>>

\* node = TitleNode(rst_node, level); node.append_text(text); node.to_gemtext()
CallTitle ==
  /\ pc = "call"
  /\ arg.fn = "TitleNode.to_gemtext"
  /\ Return(TitleNode_to_gemtext(
              [TitleNode(NoneRef, arg.level) EXCEPT !.rawtext = arg.text]))

\* EnumaratedListNode(None)._to_loweralpha(number)
CallLowerAlpha ==
  /\ pc = "call"
  /\ arg.fn = "_to_loweralpha"
  /\ Return(_to_loweralpha(arg.number))

\* node = LinkNode(rst_node, uri=uri, text=text); node.to_gemtext()
CallLink ==
  /\ pc = "call"
  /\ arg.fn = "LinkNode.to_gemtext"
  /\ LET node == LinkNode(NoneRef, NoneStr, arg.uri, arg.text) IN
     Return([node |-> node, rendering |-> LinkNode_to_gemtext(node)])

CallRemoveNewlines ==
  /\ pc = "call"
  /\ arg.fn = "remove_newlines"
  /\ Return(remove_newlines(arg.text))

CallConvertEol ==
  /\ pc = "call"
  /\ arg.fn = "convert_to_unix_end_of_line"
  /\ Return(convert_to_unix_end_of_line(arg.text))

\* visit_enumerated_list(rst_node), the children of rst_node,
\* depart_enumerated_list(rst_node); then node.to_gemtext()
CallEnumeratedList ==
  /\ pc = "call"
  /\ arg.fn = "EnumaratedListNode.to_gemtext"
  /\ LET source == <<RstNode(Tpl("enumerated_list", 0, <<>>, arg.attributes,
                                 <<>>), 0, <<>>)>>
         entered == visit_enumerated_list(NewTranslator, source, 1)
         c == Collect(entered.heap, <<>>, arg.shapes)
         heap == [c.heap EXCEPT ![1].nodes = c.nodes]
     IN Return([node |-> heap[1],
                rendering |-> EnumaratedListNode_to_gemtext(heap, heap[1])])

NextFunctions ==
  \/ CallEnumeratedList
  \/ CallTitle
  \/ CallLowerAlpha
  \/ CallLink
  \/ CallRemoveNewlines
  \/ CallConvertEol

SpecFunctions == InitFunctions /\ [][NextFunctions]_vars

\* The calls of single handlers on the translators a walk hands them: the
\* leave handlers with at most MaxChildren collected children, each a
\* finished Gemtext node as the leave of a child leaves it, and the enter
\* handler of a reference with at most MaxChildren children.
ListItemShapes ==
  {ParagraphShape(<<"a">>),
   Shape(WithText(PreformattedTextNode(NoneRef, <<>>), <<"b">>), <<>>),
   Shape(BulletListNode(NoneRef),
         <<WithText(ListItemNode(NoneRef), <<"c">>)>>),
   Shape(EnumaratedListNode(NoneRef, "arabic", <<>>, <<".">>, 1),
         <<WithText(ListItemNode(NoneRef), <<"c">>)>>),
   LinkShape(<<"u">>, <<"t">>),
   Shape(LinkGroupNode(NoneRef), <<LinkNode(NoneRef, NoneStr, <<"u">>, <<"t">>)>>)}

ListItemCalls ==
  {[fn |-> "depart_list_item",
    r |-> 2, rst |-> <<>>, original_rst |-> <<>>,
    visitor |-> LeaveBuffer(ListItemNode(NoneRef), shapes)] :
     shapes \in ShapesUpTo(ListItemShapes, MaxChildren)}

\* what a figure collects: the Link of its image, without an alt text or
\* with one, the Link of a reference around the image, and the Paragraphs of
\* a caption on two lines, of a caption on one line and of a legend
FigureShapes ==
  {LinkShape(<<"u">>, NoneStr),
   LinkShape(<<"u">>, <<"a", " ", "b">>),
   LinkShape(<<"v">>, NoneStr),
   ParagraphShape(<<"a", LF, "b">>),
   ParagraphShape(<<"a", " ", "b">>),
   ParagraphShape(<<"c">>)}

FigureCalls ==
  {[fn |-> "depart_figure",
    r |-> 2, rst |-> <<>>, original_rst |-> <<>>,
    visitor |-> LeaveBuffer(FigureNode(NoneRef), shapes)] :
     shapes \in ShapesUpTo(FigureShapes, MaxChildren)}

\* what an admonition collects: the Title of its title, Paragraphs and Links
AdmonitionShapes ==
  {Shape(WithText(TitleNode(NoneRef, 1), <<"t">>), <<>>),
   ParagraphShape(<<"a">>),
   LinkShape(<<"u">>, <<"t">>)}

AdmonitionCalls ==
  {[fn |-> "depart_admonition",
    r |-> 2, rst |-> <<>>, original_rst |-> <<>>,
    visitor |-> LeaveBuffer(AdmonitionNode(NoneRef, type_), shapes)] :
     type_ \in {"None"} \cup TypedAdmonitions,
     shapes \in ShapesUpTo(AdmonitionShapes, MaxChildren)}

\* The tables: an optional title and at most MaxChildren cells, each a
\* paragraph that starts at a line of 2..MaxCellLine and is 1..MaxCellHeight
\* lines high, the cells in the order of the document (no cell starts above
\* an earlier one).  The source text has one more line than a cell can
\* reach, every line indented by one space.
TableCells ==
  {cells \in ShapesUpTo([line : 2..MaxCellLine, height : 1..MaxCellHeight],
                        MaxChildren) :
     \A i, j \in 1..Len(cells) : i < j => cells[i].line <= cells[j].line}

CellText(height) == Join([k \in 1..height |-> <<"a">>], <<LF>>)

TableSource ==
  Join([k \in 1..(MaxCellLine + MaxCellHeight + 1) |-> <<" ", glyphs[k]>>],
       <<LF>>)

\* the source tree document > table > [title > Text], (entry > paragraph >
\* Text)*; the tgroup, tbody and row levels hold no line and are left out
TableTree(hasTitle, cells) ==
  LET base == IF hasTitle THEN 4 ELSE 2 IN
  <<RstNode(Plain("document"), 0, <<2>>),
    RstNode(Plain("table"), 1,
            (IF hasTitle THEN <<3>> ELSE <<>>)
              \o [i \in 1..Len(cells) |-> base + 3 * (i - 1) + 1])>>
  \o (IF hasTitle
      THEN <<RstNode(Tpl("title", 1, <<>>, NoAttributes, <<>>), 2, <<4>>),
             RstNode(Text(<<"t">>), 3, <<>>)>>
      ELSE <<>>)
  \o [k \in 1..(3 * Len(cells)) |->
        LET cell == cells[((k - 1) \div 3) + 1]
            id == base + k
        IN CASE (k - 1) % 3 = 0 -> RstNode(Plain("entry"), 2, <<id + 1>>)
             [] (k - 1) % 3 = 1 ->
                  RstNode(Tpl("paragraph", cell.line, <<>>, NoAttributes,
                              <<>>), id - 1, <<id + 1>>)
             [] OTHER -> RstNode(Text(CellText(cell.height)), id - 1, <<>>)]

\* the buffer at the leave of the table: the placeholder, the Title of the
\* title and the Paragraphs of the cells
TableBuffer(hasTitle, cells) ==
  LET base == IF hasTitle THEN 4 ELSE 2
      heap == <<PreformattedTextNode(RstRef(2), <<>>)>>
              \o (IF hasTitle
                  THEN <<WithText(TitleNode(RstRef(3), 0), <<"t">>)>>
                  ELSE <<>>)
              \o [i \in 1..Len(cells) |->
                    WithText(ParagraphNode(RstRef(base + 3 * (i - 1) + 2)),
                             CellText(cells[i].height))]
  IN [NewTranslator EXCEPT !.heap = heap,
                           !.nodes = [i \in 1..Len(heap) |-> i]]

TableCalls ==
  {[fn |-> "depart_table",
    r |-> 2, rst |-> TableTree(hasTitle, cells), original_rst |-> TableSource,
    visitor |-> TableBuffer(hasTitle, cells)] :
     hasTitle \in BOOLEAN, cells \in TableCells}

\* The references: in a paragraph that accepts text or in a figure, with a
\* refuri or with a refname only, holding texts, images and inline markup.
ReferenceChildren ==
  {TextA, Text(<<"b", LF, "c">>), ImageTpl, Plain("emphasis"),
   Plain("strong")}

ReferenceAttributes ==
  {[classes |-> <<>>, refuri |-> Uri], [classes |-> <<>>, refname |-> <<"r">>]}

RECURSIVE AddChildren(_, _, _)
\* the source tree with the children of the templates added to node parent,
\* emphasis and strong holding a text
AddChildren(tree, parent, tpls) ==
  IF tpls = <<>> THEN tree
  ELSE LET id == Len(tree) + 1
           marked == tpls[1].tagname \in {"emphasis", "strong"}
           added == [tree EXCEPT ![parent].children = Append(@, id)]
                    \o <<RstNode(tpls[1], parent,
                                 IF marked THEN <<id + 1>> ELSE <<>>)>>
                    \o (IF marked THEN <<RstNode(TextA, id, <<>>)>> ELSE <<>>)
       IN AddChildren(added, parent, Tail(tpls))

ReferenceCalls ==
  {[fn |-> "visit_reference",
    r |-> 3,
    rst |-> AddChildren(<<RstNode(Plain("document"), 0, <<2>>),
                          RstNode(Plain(parent), 1, <<3>>),
                          RstNode(Tpl("reference", 0, <<>>, a, <<>>), 2, <<>>)>>,
                        3, children),
    original_rst |-> <<>>,
    visitor |-> IF parent = "paragraph"
                THEN visit_paragraph(NewTranslator, 2)
                ELSE visit_figure(NewTranslator, 2)] :
     parent \in {"paragraph", "figure"},
     a \in ReferenceAttributes,
     children \in ShapesUpTo(ReferenceChildren, MaxChildren)}

HandlerCalls ==
  ListItemCalls \cup FigureCalls \cup AdmonitionCalls \cup TableCalls
    \cup ReferenceCalls

InitHandlers ==
  /\ stack = <<>>
  /\ output = NoneStr
  /\ pc = "call"
  /\ \E call \in HandlerCalls :
       /\ rst = call.rst
       /\ original_rst = call.original_rst
       /\ visitor = call.visitor
       /\ arg = [fn |-> call.fn, r |-> call.r]
  /\ returned = <<>>

Handle(t) ==
  /\ visitor' = t
  /\ pc' = IF t.err # "" THEN "raised" ELSE "returned"
  /\ UNCHANGED <<rst, original_rst, stack, output, arg, returned>>

CallDepartListItem ==
  /\ pc = "call"
  /\ arg.fn = "depart_list_item"
  /\ Handle(depart_list_item(visitor, arg.r))

CallDepartFigure ==
  /\ pc = "call"
  /\ arg.fn = "depart_figure"
  /\ Handle(depart_figure(visitor, arg.r))

CallDepartAdmonition ==
  /\ pc = "call"
  /\ arg.fn = "depart_admonition"
  /\ Handle(depart_admonition(visitor, arg.r))

CallDepartTable ==
  /\ pc = "call"
  /\ arg.fn = "depart_table"
  /\ Handle(depart_table(visitor, rst, original_rst, arg.r))

CallVisitReference ==
  /\ pc = "call"
  /\ arg.fn = "visit_reference"
  /\ Handle(visit_reference(visitor, rst, arg.r))

NextHandlers ==
  \/ CallDepartListItem
  \/ CallDepartFigure
  \/ CallDepartAdmonition
  \/ CallDepartTable
  \/ CallVisitReference

SpecHandlers == InitHandlers /\ [][NextHandlers]_vars

\* -------------------------------------------------------------- events

\* What a step of the walk delivered, read off the recursion stack.
IsEnter == Len(stack') = Len(stack) + 1
Entered == stack'[Len(stack')].id
IsLeave == Len(stack') = Len(stack) - 1
Left == stack[Len(stack)].id

StackIds == {stack[i].id : i \in 1..Len(stack)}

\* the node has been entered and left
Closed(r) == r \in 1..Len(rst) /\ r \notin StackIds
               /\ \A i \in 1..Len(stack) :
                    \A k \in (stack[i].visited + 1)..Len(rst[stack[i].id].children) :
                      rst[stack[i].id].children[k] # r

RECURSIVE UnderOpaque(_)
\* a proper ancestor of the node is of an opaque kind
UnderOpaque(r) ==
  /\ rst[r].parent # 0
  /\ \/ rst[rst[r].parent].tagname \in _SKIPPED_NODES
     \/ UnderOpaque(rst[r].parent)

RECURSIVE Reachable(_, _)
\* the Gemtext nodes of a list and, recursively, of the groups in it
Reachable(heap, ids) ==
  IF ids = <<>> THEN {}
  ELSE {ids[1]}
       \cup (IF HasAttr(heap[ids[1]], "nodes")
             THEN Reachable(heap, heap[ids[1]].nodes) ELSE {})
       \cup Reachable(heap, Tail(ids))

\* ------------------------------------------------------------------- C1

\* The opaque kinds the skip-marker protocol is stated for.
OpaqueKinds == {"field_list", "comment", "substitution_definition"}

\* C1: with no marker set, the enter event of an opaque kind sets the marker
\* to that node and does nothing else; while the marker is set, every enter
\* event and every leave event of another node leaves the whole translator,
\* marker included, as it was; the marker is cleared by the leave event of
\* the very node that set it and by no other event; with no marker set a
\* recognized kind (paragraph) is dispatched to its handler.
C1_SkipMarkerProtocol ==
  [][/\ (IsEnter /\ pc = "walk" /\ visitor.skipped = 0
           /\ rst'[Entered].tagname \in OpaqueKinds)
          => visitor' = [visitor EXCEPT !.skipped = Entered]
     /\ (visitor.skipped # 0 /\ (IsEnter \/ (IsLeave /\ Left # visitor.skipped)))
          => visitor' = visitor
     /\ (IsLeave /\ visitor.skipped # 0 /\ Left = visitor.skipped)
          => visitor' = [visitor EXCEPT !.skipped = 0]
     /\ (visitor.skipped # 0 /\ visitor'.skipped = 0)
          => (IsLeave /\ Left = visitor.skipped)
     /\ (IsEnter /\ pc = "walk" /\ visitor.skipped = 0
           /\ rst'[Entered].tagname = "paragraph")
          => /\ Len(visitor'.nodes) = Len(visitor.nodes) + 1
             /\ visitor'.current = visitor'.nodes[Len(visitor'.nodes)]
    ]_vars

\* A nested opaque node has been entered and left inside an opaque subtree
\* and the marker is still the outer node.
C1_Witness ==
  /\ pc = "walk"
  /\ visitor.skipped # 0
  /\ rst[visitor.skipped].tagname \in OpaqueKinds
  /\ \E r \in 1..Len(rst) :
       /\ r # visitor.skipped
       /\ rst[r].tagname \in _SKIPPED_NODES
       /\ UnderOpaque(r)
       /\ Closed(r)

\* ------------------------------------------------------------------- C2

\* C2: the leave event of an opaque node, and of every node below one, leaves
\* the translator (buffer, diagnostics, accepting-text pointer, section
\* depth, every Gemtext node) exactly as the node's enter event found it.
C2_OpaqueSubtreeFrame ==
  [][(IsLeave /\ (rst[Left].tagname \in OpaqueKinds \/ UnderOpaque(Left)))
       => visitor' = Top.before]_vars

\* An opaque node has been left whose subtree holds a node of a kind that
\* emits outside an opaque subtree (an image, a reference, a paragraph, a
\* system message), after something was already in the buffer.
C2_Witness ==
  /\ pc = "walk"
  /\ visitor.nodes # <<>>
  /\ \E r \in 1..Len(rst) :
       /\ rst[r].tagname \in OpaqueKinds
       /\ Closed(r)
       /\ \E c \in 1..Len(rst) :
            /\ rst[c].tagname \in
                 {"image", "reference", "paragraph", "system_message"}
            /\ UnderOpaque(c)
            /\ \/ rst[c].parent = r
               \/ rst[rst[c].parent].parent = r

\* ------------------------------------------------------------------- C3

\* the system messages entered outside any opaque subtree, in document order
SystemMessagesEntered ==
  SelectSeq([i \in 1..Len(rst) |-> i],
            LAMBDA r : /\ rst[r].tagname = "system_message"
                       /\ ~UnderOpaque(r)
                       /\ ~(rst[r].tagname \in _SKIPPED_NODES))

\* the position of the node's placeholder in the buffer
PlaceholderAt(r) ==
  CHOOSE i \in 1..Len(visitor.nodes) :
    visitor.heap[visitor.nodes[i]].rst_node = RstRef(r)

\* C3: once the walk is complete no SystemMessage node is in the buffer, at
\* the top level or in any group; the diagnostics list holds the system
\* messages entered outside an opaque subtree, each once, in document order;
\* and the body of each is the nodes the buffer held after its placeholder
\* when it was left.
C3_SystemMessagesRouted ==
  /\ [](pc \in {"generate", "done"} =>
          /\ \A id \in Reachable(visitor.heap, visitor.nodes) :
               visitor.heap[id].cls # "SystemMessageNode"
          /\ [i \in 1..Len(visitor.messages) |->
                visitor.heap[visitor.messages[i]].rst_node]
             = [i \in 1..Len(SystemMessagesEntered) |->
                  RstRef(SystemMessagesEntered[i])])
  /\ [][(IsLeave /\ pc' # "failed" /\ rst[Left].tagname = "system_message"
           /\ visitor.skipped = 0)
          => LET i == PlaceholderAt(Left)
                 sm == visitor.nodes[i]
             IN /\ visitor.heap[sm].cls = "SystemMessageNode"
                /\ visitor'.heap[sm].nodes
                     = SubSeq(visitor.nodes, i + 1, Len(visitor.nodes))
                /\ visitor'.messages = Append(visitor.messages, sm)
                /\ visitor'.nodes = SubSeq(visitor.nodes, 1, i - 1)
       ]_vars

\* A walk is complete with two diagnostics, the first with a body.
C3_Witness ==
  /\ pc = "generate"
  /\ Len(visitor.messages) = 2
  /\ visitor.heap[visitor.messages[1]].nodes # <<>>

\* ------------------------------------------------------------------- C4

\* the node is a Link whose URI was never resolved
UnresolvedLink(obj) == obj.cls = "LinkNode" /\ ~Truthy(obj.uri)

\* C4: a conversion that created a Link whose URI stayed unresolved does not
\* succeed.
C4_UnresolvedLinkIsFatal ==
  pc = "done" =>
    \A id \in 1..Len(visitor.heap) : ~UnresolvedLink(visitor.heap[id])

\* ------------------------------------------------------------------- C5

\* the kinds whose leave handler splits the buffer on the node left
SplittingKinds ==
  {"admonition", "block_quote", "bullet_list", "enumerated_list", "figure",
   "list_item", "paragraph", "system_message", "table"} \cup TypedAdmonitions

\* C5: the output is assigned only by the step that ends a complete walk, to
\* a translator no handler of which raised, and never again; a walk that
\* meets a fatal condition (text with no accepting node, a reference holding
\* another kind than text and image, a Link of the buffer left unresolved at
\* serialization) fails and leaves the output unassigned; a leave handler
\* that splits the buffer always finds its marker in it.
C5_AllOrNothing ==
  /\ [](/\ pc # "done" => output = NoneStr
        /\ pc = "done" =>
             /\ IsStr(output)
             /\ stack = <<>>
             /\ visitor.err = ""
             /\ \A r \in 1..Len(rst) : Closed(r)
        /\ visitor.err # "" => pc = "failed")
  /\ [][/\ (pc = "generate"
              /\ \E id \in Reachable(visitor.heap, visitor.nodes) :
                   UnresolvedLink(visitor.heap[id]))
             => (pc' = "failed" /\ output' = NoneStr)
        /\ (IsEnter /\ pc = "walk" /\ visitor.skipped = 0
              /\ rst'[Entered].tagname = "#text" /\ visitor.current = 0)
             => (pc' = "failed" /\ output' = NoneStr)
        /\ (IsEnter /\ pc = "walk" /\ visitor.skipped = 0
              /\ rst'[Entered].tagname = "reference"
              /\ \E k \in 1..Len(rst'[Entered].children) :
                   rst'[rst'[Entered].children[k]].tagname
                     \notin {"#text", "image"})
             => (pc' = "failed" /\ output' = NoneStr)
        /\ (IsLeave /\ pc = "walk" /\ visitor.skipped = 0
              /\ rst[Left].tagname \in SplittingKinds)
             => \E i \in 1..Len(visitor.nodes) :
                  visitor.heap[visitor.nodes[i]].rst_node = RstRef(Left)
        /\ output' # output => (pc = "generate" /\ pc' = "done")
       ]_vars

\* The whole tree was walked and the serialization failed on an unresolved
\* Link of the buffer: no output.
C5_Witness ==
  /\ pc = "failed"
  /\ stack = <<>>
  /\ visitor.err = ""
  /\ \E i \in 1..Len(visitor.nodes) : UnresolvedLink(visitor.heap[visitor.nodes[i]])

\* ------------------------------------------------------------------- C8

\* the construct that created the Gemtext node has been left
CreatorClosed(obj) ==
  obj.rst_node.space = "rst" => Closed(obj.rst_node.id)

\* C8: no step changes the accumulated text or the child list of a node of
\* the buffer whose creating construct has been left.
C8_ClosedNodesFrozen ==
  [][\A g \in Reachable(visitor.heap, visitor.nodes) :
       CreatorClosed(visitor.heap[g]) =>
         /\ visitor'.heap[g].rawtext = visitor.heap[g].rawtext
         /\ HasAttr(visitor.heap[g], "nodes") =>
              visitor'.heap[g].nodes = visitor.heap[g].nodes
    ]_vars

\* ------------------------------------------------------------------- C9

\* C9: a plain-text event outside an opaque subtree appends its content to
\* the accepting node and changes nothing else of the translator; with no
\* accepting node it aborts the conversion.
C9_TextEvent ==
  [][(IsEnter /\ pc = "walk" /\ visitor.skipped = 0
        /\ rst'[Entered].tagname = "#text")
       => IF visitor.current # 0
          THEN /\ visitor' = [visitor EXCEPT
                                !.heap[visitor.current].rawtext =
                                   @ \o rst'[Entered].text]
               /\ pc' = "walk"
          ELSE /\ pc' = "failed"
               /\ visitor'.nodes = visitor.nodes
               /\ visitor'.heap = visitor.heap
    ]_vars

\* A text arrived below an open table, whose enter event unset the pointer,
\* and aborted the conversion.
C9_Witness ==
  /\ pc = "failed"
  /\ stack # <<>>
  /\ rst[Top.id].tagname = "#text"
  /\ visitor.current = 0
  /\ \E i \in 1..Len(stack) : rst[stack[i].id].tagname = "table"

\* ------------------------------------------------------------------ C10

\* the marker is the back-reference of no node of the buffer
MarkerAbsent ==
  \A i \in 1..Len(visitor.nodes) :
    visitor.heap[visitor.nodes[i]].rst_node # arg.marker

\* C10: a call of the splitting utility with a marker that no node of the
\* buffer refers to raises and leaves the buffer as it was.
C10_SplitFailsWithoutMarker ==
  [][(pc = "call" /\ MarkerAbsent)
       => (pc' = "raised" /\ visitor'.nodes = visitor.nodes)]_vars

\* -------------------------------------------------------------- C6, C7

RECURSIVE Blob(_, _)
\* render(n1) + "\n\n" + ... + "\n\n" + render(nk) + "\n"
Blob(heap, ids) ==
  IF ids = <<>> THEN <<LF>>
  ELSE IF Len(ids) = 1 THEN to_gemtext(heap, ids[1]).text \o <<LF>>
  ELSE to_gemtext(heap, ids[1]).text \o <<LF, LF>> \o Blob(heap, Tail(ids))

\* the tree is document > paragraph > "a"
OneParagraph ==
  /\ Len(rst) = 3
  /\ rst[2].tagname = "paragraph" /\ rst[2].parent = 1
  /\ rst[3].tagname = "#text" /\ rst[3].parent = 2 /\ rst[3].text = <<"a">>

\* the tree is document > (paragraph > "a"), transition
ParagraphAndTransition ==
  /\ Len(rst) = 4
  /\ rst[2].tagname = "paragraph" /\ rst[2].parent = 1
  /\ rst[3].tagname = "#text" /\ rst[3].parent = 2 /\ rst[3].text = <<"a">>
  /\ rst[4].tagname = "transition" /\ rst[4].parent = 1

\* C6: the output of a conversion is the renderings of the nodes of the
\* final buffer, in buffer order, with two newlines between consecutive ones
\* and one newline after the last; a paragraph "a" converts to "a\n", and
\* followed by a transition to "a\n\n", the rule and "\n".
C6_OutputIsJoin ==
  pc = "done" =>
    /\ output = Blob(visitor.heap, visitor.nodes)
    /\ OneParagraph => output = <<"a", LF>>
    /\ ParagraphAndTransition => output = <<"a", LF, LF>> \o Rule \o <<LF>>

\* A conversion ended with three nodes, of three classes, in the buffer.
C6_Witness ==
  /\ pc = "done"
  /\ Len(visitor.nodes) = 3
  /\ visitor.heap[visitor.nodes[1]].cls = "ParagraphNode"
  /\ visitor.heap[visitor.nodes[2]].cls = "SeparatorNode"
  /\ visitor.heap[visitor.nodes[3]].cls = "LinkNode"

\* the text ends with a newline that no other newline precedes
EndsWithOneNewline(text) ==
  /\ text # <<>>
  /\ text[Len(text)] = LF
  /\ Len(text) > 1 => text[Len(text) - 1] # LF

\* C7 as stated: the output of a successful conversion ends with exactly one
\* newline, whatever the last node of the buffer.
C7_ExactlyOneTrailingNewline ==
  pc = "done" => EndsWithOneNewline(output)

\* the rendering of the last node of the buffer
LastRendering ==
  to_gemtext(visitor.heap, visitor.nodes[Len(visitor.nodes)]).text

\* C7: the output of a successful conversion ends with a newline; that
\* newline is the only one at the end exactly when the buffer is empty, or
\* the rendering of its last node is the empty text of a sole node, or that
\* rendering is not empty and does not end with a newline.
C7_TrailingNewline ==
  pc = "done" =>
    /\ output # <<>>
    /\ output[Len(output)] = LF
    /\ EndsWithOneNewline(output) <=>
         \/ visitor.nodes = <<>>
         \/ LastRendering = <<>> /\ Len(visitor.nodes) = 1
         \/ LastRendering # <<>> /\ LastRendering[Len(LastRendering)] # LF

\* A conversion ended with a Raw node last whose text ends with a newline:
\* the output ends with two.
C7_Witness ==
  /\ pc = "done"
  /\ visitor.nodes # <<>>
  /\ visitor.heap[visitor.nodes[Len(visitor.nodes)]].cls = "RawNode"
  /\ Len(output) > 1
  /\ output[Len(output)] = LF
  /\ output[Len(output) - 1] = LF

\* ------------------------------------------------------------------ C11

RECURSIVE MarkerLen(_)
\* the length of the run of "#" a text starts with
MarkerLen(text) ==
  IF text # <<>> /\ text[1] = "#" THEN 1 + MarkerLen(Tail(text)) ELSE 0

\* the marker length the claim states for a level
ClampedLevel(level) ==
  IF level < MinTitleLevel THEN MinTitleLevel
  ELSE IF level > MaxTitleLevel THEN MaxTitleLevel ELSE level

\* the rendering of a Title of the level with the text
TitleRendering(level, text) ==
  TitleNode_to_gemtext([TitleNode(NoneRef, level) EXCEPT !.rawtext = text]).text

\* C11: the rendering of a Title of any level is a run of "#" of length
\* max(1, min(3, level)), a space and the title text; the run is no shorter
\* than the run of any lower level and is 3 for every level from 3 on.
C11_TitleMarker ==
  (pc = "returned" /\ arg.fn = "TitleNode.to_gemtext") =>
    /\ returned.ok
    /\ returned.text =
         Repeat("#", ClampedLevel(arg.level)) \o <<" ">> \o arg.text
    /\ MarkerLen(returned.text) \in MinTitleLevel..MaxTitleLevel
    /\ \A l \in (0 - MaxLevel)..arg.level :
         MarkerLen(TitleRendering(l, arg.text)) <= MarkerLen(returned.text)
    /\ arg.level >= MaxTitleLevel => MarkerLen(returned.text) = MaxTitleLevel

\* A Title nested deeper than three sections was rendered.
C11_Witness ==
  /\ pc = "returned"
  /\ arg.fn = "TitleNode.to_gemtext"
  /\ arg.level > MaxTitleLevel
  /\ returned.text = <<"#", "#", "#", " ", "t">>

\* ------------------------------------------------------------------ C12

\* the value of a letter as a digit: a = 1, ..., z = 26
GlyphValue(c) == CHOOSE k \in 1..Len(glyphs) : glyphs[k] = c

RECURSIVE DecodeAlpha(_)
\* the number a word over a..z stands for in bijective base 26
DecodeAlpha(word) ==
  IF word = <<>> THEN 0
  ELSE DecodeAlpha(SubSeq(word, 1, Len(word) - 1)) * Len(glyphs)
         + GlyphValue(word[Len(word)])

\* C12: the lower-alpha encoding of a positive number is a non-empty word
\* over a..z, no longer than the number (the loop ends), whose decoding in
\* bijective base 26 is the number, so that no two numbers share an
\* encoding; 1, 2, 26, 27, 28 encode to a, b, z, aa, ab.
C12_LowerAlphaBijective ==
  (pc = "returned" /\ arg.fn = "_to_loweralpha") =>
    /\ returned # <<>>
    /\ Len(returned) <= arg.number
    /\ \A i \in 1..Len(returned) :
         \E k \in 1..Len(glyphs) : glyphs[k] = returned[i]
    /\ DecodeAlpha(returned) = arg.number
    /\ arg.number = 1 => returned = <<"a">>
    /\ arg.number = 2 => returned = <<"b">>
    /\ arg.number = 26 => returned = <<"z">>
    /\ arg.number = 27 => returned = <<"a", "a">>
    /\ arg.number = 28 => returned = <<"a", "b">>

\* A number past the two-letter words was encoded: 703 is aaa.
C12_Witness ==
  /\ pc = "returned"
  /\ arg.fn = "_to_loweralpha"
  /\ arg.number = 703
  /\ returned = <<"a", "a", "a">>

\* ------------------------------------------------------------------ C13

\* "=> " + uri
LinkLine(uri) == <<"=", ">", " ">> \o uri

\* C13: a Link created with no text, or an empty one, has its URI as text; a
\* Link with no URI, or an empty one, fails to render; a Link whose text is
\* its URI renders as "=> " and the URI, and one whose text differs as
\* "=> ", the URI, a space and the text.
C13_LinkRendering ==
  (pc = "returned" /\ arg.fn = "LinkNode.to_gemtext") =>
    /\ returned.node.uri = arg.uri
    /\ returned.node.rawtext = IF Truthy(arg.text) THEN arg.text ELSE arg.uri
    /\ ~Truthy(arg.uri) =>
         (~returned.rendering.ok /\ returned.rendering.err = "ValueError")
    /\ (Truthy(arg.uri) /\ (~Truthy(arg.text) \/ arg.text = arg.uri)) =>
         returned.rendering = Rendered(LinkLine(arg.uri))
    /\ (Truthy(arg.uri) /\ Truthy(arg.text) /\ arg.text # arg.uri) =>
         returned.rendering = Rendered(LinkLine(arg.uri) \o <<" ">> \o arg.text)

\* A Link was created with a URI and no text, as for an image without alt,
\* and rendered.
C13_Witness ==
  /\ pc = "returned"
  /\ arg.fn = "LinkNode.to_gemtext"
  /\ arg.text = NoneStr
  /\ arg.uri = <<"u">>
  /\ returned.rendering = Rendered(<<"=", ">", " ", "u">>)

\* ------------------------------------------------------------------ C14

RECURSIVE EachLineEnding(_, _)
\* the text with each line ending (CR LF, else a lone CR or LF), read from
\* the left, replaced by one character
EachLineEnding(text, by) ==
  IF text = <<>> THEN <<>>
  ELSE IF Len(text) >= 2 /\ text[1] = CR /\ text[2] = LF
       THEN <<by>> \o EachLineEnding(SubSeq(text, 3, Len(text)), by)
  ELSE IF text[1] \in {CR, LF}
       THEN <<by>> \o EachLineEnding(Tail(text), by)
  ELSE <<text[1]>> \o EachLineEnding(Tail(text), by)

\* C14: collapsing the newlines of a text over CR, LF and a letter replaces
\* each of CR LF, CR and LF by one space and equals collapsing the
\* normalized text; normalizing replaces each of them by one LF, and
\* normalizing again changes nothing.
C14_LineEndings ==
  /\ (pc = "returned" /\ arg.fn = "remove_newlines") =>
       /\ returned = EachLineEnding(arg.text, " ")
       /\ returned = remove_newlines(convert_to_unix_end_of_line(arg.text))
       /\ arg.text = <<"a", CR, LF, "a">> => returned = <<"a", " ", "a">>
  /\ (pc = "returned" /\ arg.fn = "convert_to_unix_end_of_line") =>
       /\ returned = EachLineEnding(arg.text, LF)
       /\ convert_to_unix_end_of_line(returned) = returned
       /\ remove_newlines(returned) = remove_newlines(arg.text)

\* A text mixing the three conventions was collapsed.
C14_Witness ==
  /\ pc = "returned"
  /\ arg.fn = "remove_newlines"
  /\ arg.text = <<"a", CR, LF, LF, CR, "a">>
  /\ returned = <<"a", " ", " ", " ", "a">>

\* ------------------------------------------------------------------ C15

\* C15: a call of the splitting utility with a marker that a node of the
\* buffer refers to returns; the new buffer followed by the returned list is
\* the old buffer, the first returned node refers to the marker, no node of
\* the new buffer does, and nothing else of the translator changes.
C15_SplitAtFirstMarker ==
  [][(pc = "call" /\ ~MarkerAbsent) =>
       /\ pc' = "returned"
       /\ visitor'.nodes \o returned' = visitor.nodes
       /\ returned' # <<>>
       /\ visitor.heap[returned'[1]].rst_node = arg.marker
       /\ \A j \in 1..Len(visitor'.nodes) :
            visitor.heap[visitor'.nodes[j]].rst_node # arg.marker
       /\ visitor' = [visitor EXCEPT !.nodes = visitor'.nodes]
    ]_vars

\* A buffer in which two nodes refer to the marker, with a node before the
\* first of them, was split at the first.
C15_Witness ==
  /\ pc = "returned"
  /\ Len(visitor.nodes) = 1
  /\ Len(returned) = 2
  /\ visitor.heap[returned[1]].rst_node = arg.marker
  /\ visitor.heap[returned[2]].rst_node = arg.marker

\* ------------------------------------------------------------------ C16

\* the kinds the translator defines a visit method for
RecognizedKinds ==
  {"admonition", "block_quote", "bullet_list", "caption", "enumerated_list",
   "figure", "image", "list_item", "literal_block", "paragraph", "raw",
   "reference", "section", "system_message", "table", "#text", "title",
   "transition"} \cup TypedAdmonitions

\* the kind goes to default_visit and default_departure
Unrecognized(tagname) ==
  tagname \notin RecognizedKinds \cup _NOP_NODES \cup _SKIPPED_NODES

\* the enter and the leave event of a node of an unrecognized kind leave the
\* translator as it was
UnrecognizedEventsAreNoOps ==
  /\ (IsEnter /\ pc = "walk" /\ Unrecognized(rst'[Entered].tagname))
       => visitor' = visitor
  /\ (IsLeave /\ pc = "walk" /\ Unrecognized(rst[Left].tagname))
       => visitor' = visitor

\* C16: the enter and the leave event of a node of an unrecognized kind
\* leave the translator as it was, and a text that is a child of such a
\* node changes the accumulated text of no Gemtext node.
C16_UnrecognizedCollectsNothing ==
  [][/\ UnrecognizedEventsAreNoOps
     /\ (IsEnter /\ pc = "walk" /\ visitor.skipped = 0
           /\ rst'[Entered].tagname = "#text"
           /\ Unrecognized(rst[Top.id].tagname))
          => \A g \in 1..Len(visitor.heap) :
               visitor'.heap[g].rawtext = visitor.heap[g].rawtext
    ]_vars

\* ------------------------------------------------------------------ C17

\* the section nodes entered and not left, outside opaque subtrees
OpenSections ==
  {i \in 1..Len(stack) :
     /\ rst[stack[i].id].tagname = "section"
     /\ ~UnderOpaque(stack[i].id)}

RECURSIVE SectionAncestors(_)
\* the number of sections a source node lies in
SectionAncestors(r) ==
  IF rst[r].parent = 0 THEN 0
  ELSE (IF rst[rst[r].parent].tagname = "section" THEN 1 ELSE 0)
         + SectionAncestors(rst[r].parent)

\* C17: the section depth counter is the number of sections entered and not
\* yet left outside opaque subtrees, hence never negative and 0 after the
\* walk; a Title carries as level the counter at its enter event, the
\* number of sections it lies in; the enter and leave events of a section
\* change nothing but the counter and no Gemtext node refers to a section.
C17_SectionDepth ==
  /\ [](/\ visitor.section_level = Cardinality(OpenSections)
        /\ visitor.section_level >= 0
        /\ stack = <<>> => visitor.section_level = 0
        /\ \A g \in 1..Len(visitor.heap) :
             /\ visitor.heap[g].cls = "TitleNode" =>
                  visitor.heap[g].level
                    = SectionAncestors(visitor.heap[g].rst_node.id)
             /\ visitor.heap[g].rst_node.space = "rst" =>
                  rst[visitor.heap[g].rst_node.id].tagname # "section")
  /\ [][/\ (IsEnter /\ pc = "walk" /\ visitor.skipped = 0
              /\ rst'[Entered].tagname = "section")
             => visitor' = [visitor EXCEPT !.section_level = @ + 1]
        /\ (IsLeave /\ pc = "walk" /\ visitor.skipped = 0
              /\ rst[Left].tagname = "section")
             => visitor' = [visitor EXCEPT !.section_level = @ - 1]
        /\ (IsEnter /\ pc = "walk" /\ visitor.skipped = 0
              /\ rst'[Entered].tagname = "title")
             => /\ Len(visitor'.heap) = Len(visitor.heap) + 1
                /\ visitor'.heap[Len(visitor'.heap)].cls = "TitleNode"
                /\ visitor'.heap[Len(visitor'.heap)].level
                     = visitor.section_level
       ]_vars

\* A walk ended, the counter back to 0, after a title four sections deep
\* was created with level 4.
C17_Witness ==
  /\ pc = "done"
  /\ visitor.section_level = 0
  /\ \E g \in 1..Len(visitor.heap) :
       visitor.heap[g].cls = "TitleNode" /\ visitor.heap[g].level = 4

\* ------------------------------------------------------------- C18, C19

\* the step is the leave event of a paragraph, dispatched to its handler
ParagraphLeave ==
  /\ IsLeave
  /\ pc = "walk"
  /\ visitor.skipped = 0
  /\ rst[Left].tagname = "paragraph"

\* the Paragraph node of the paragraph left, the buffer before it and the
\* sub-nodes collected after it
LeftParagraph == visitor.nodes[PlaceholderAt(Left)]
BufferBefore == SubSeq(visitor.nodes, 1, PlaceholderAt(Left) - 1)
Collected ==
  SubSeq(visitor.nodes, PlaceholderAt(Left) + 1, Len(visitor.nodes))

\* the paragraph's collapsed text
CollapsedText == remove_newlines(visitor.heap[LeftParagraph].rawtext)

\* C18: on paragraph leave, when the one sub-node collected is a Link whose
\* text is the paragraph's collapsed text, the buffer becomes what it was
\* before the paragraph followed by that Link alone.
C18_PureLinkParagraph ==
  [][(/\ ParagraphLeave
      /\ Len(Collected) = 1
      /\ visitor.heap[Collected[1]].cls = "LinkNode"
      /\ visitor.heap[Collected[1]].rawtext = CollapsedText)
       => visitor'.nodes = Append(BufferBefore, Collected[1])
    ]_vars

\* the paragraph is kept: its collapsed text is not blank
KeptParagraph ==
  IF StripIsNonEmpty(CollapsedText) THEN <<LeftParagraph>> ELSE <<>>

\* the Gemtext node the step created
NewNode == Len(visitor.heap) + 1

\* C19 as stated: on paragraph leave outside the pure-link case the buffer
\* becomes what it was before the paragraph, followed by the Paragraph when
\* its collapsed text is not blank, followed by the collected sub-node
\* itself when there is one and by one new LinkGroup of them when there are
\* more.
C19_SingleLinkNotWrapped ==
  [][(/\ ParagraphLeave
      /\ ~(/\ Len(Collected) = 1
           /\ visitor.heap[Collected[1]].rawtext = CollapsedText))
       => visitor'.nodes =
            BufferBefore \o KeptParagraph
              \o (IF Len(Collected) = 1 THEN Collected
                  ELSE IF Len(Collected) > 1 THEN <<NewNode>> ELSE <<>>)
    ]_vars

\* C19: on paragraph leave, unless the one sub-node collected has the
\* paragraph's accumulated text as text, the buffer becomes what it was
\* before the paragraph, followed by the Paragraph when its collapsed text is
\* not blank, followed, when sub-nodes were collected, by one new LinkGroup
\* holding them in order, even when there is only one.
C19_ParagraphLeave ==
  [][(/\ ParagraphLeave
      /\ ~(/\ Len(Collected) = 1
           /\ visitor.heap[Collected[1]].rawtext
                = visitor.heap[LeftParagraph].rawtext))
       => /\ visitor'.nodes =
               BufferBefore \o KeptParagraph
                 \o (IF Collected # <<>> THEN <<NewNode>> ELSE <<>>)
          /\ Collected = <<>> => visitor'.heap = visitor.heap
          /\ Collected # <<>> =>
               /\ Len(visitor'.heap) = NewNode
               /\ visitor'.heap[NewNode].cls = "LinkGroupNode"
               /\ visitor'.heap[NewNode].nodes = Collected
               /\ visitor'.heap[NewNode].rst_node = RstRef(Left)
               /\ \A g \in 1..Len(visitor.heap) :
                    visitor'.heap[g] = visitor.heap[g]
    ]_vars

\* A paragraph holding a blank text and an image was left: the Paragraph was
\* dropped and the one Link wrapped in a LinkGroup.
C19_Witness ==
  /\ pc = "walk"
  /\ Len(stack) = 1
  /\ Len(visitor.nodes) = 1
  /\ visitor.heap[visitor.nodes[1]].cls = "LinkGroupNode"
  /\ Len(visitor.heap[visitor.nodes[1]].nodes) = 1
  /\ \E g \in 1..Len(visitor.heap) :
       visitor.heap[g].cls = "ParagraphNode" /\ visitor.heap[g].rawtext = <<" ">>

\* ------------------------------------------------------------------ C20

\* the step is the leave event of a block quote or a list, dispatched to its
\* handler
GroupLeave ==
  /\ IsLeave
  /\ pc = "walk"
  /\ visitor.skipped = 0
  /\ rst[Left].tagname \in {"block_quote", "bullet_list", "enumerated_list"}

\* the group node of the construct left
LeftGroup == visitor.nodes[PlaceholderAt(Left)]

RECURSIVE Flattened(_)
\* the Links of a list of nodes and the members of its LinkGroups, in order
Flattened(ids) ==
  IF ids = <<>> THEN <<>>
  ELSE (IF visitor.heap[ids[1]].cls = "LinkNode" THEN <<ids[1]>>
        ELSE IF visitor.heap[ids[1]].cls = "LinkGroupNode"
             THEN visitor.heap[ids[1]].nodes
        ELSE <<>>)
       \o Flattened(Tail(ids))

\* the collected children that are neither Link nor LinkGroup, in order
Rest ==
  SelectSeq(Collected,
            LAMBDA n : visitor.heap[n].cls \notin {"LinkNode", "LinkGroupNode"})

\* C20: on block quote, bullet list and enumerated list leave the buffer
\* becomes what it was before the group, followed by the group, holding the
\* collected non-links as children, when there are any, followed by the
\* collected Link when there is one and by one new LinkGroup of the collected
\* links, all of them Links and in order, when there are more; no other node
\* changes.
C20_LinkExtraction ==
  [][GroupLeave =>
       LET links == Flattened(Collected) IN
       /\ pc' # "failed"
       /\ visitor'.nodes =
            BufferBefore
              \o (IF Rest # <<>> THEN <<LeftGroup>> ELSE <<>>)
              \o (IF links = <<>> THEN <<>>
                  ELSE IF Len(links) = 1 THEN links ELSE <<NewNode>>)
       /\ Rest # <<>> => visitor'.heap[LeftGroup].nodes = Rest
       /\ Len(links) <= 1 => Len(visitor'.heap) = Len(visitor.heap)
       /\ Len(links) > 1 =>
            /\ Len(visitor'.heap) = NewNode
            /\ visitor'.heap[NewNode].cls = "LinkGroupNode"
            /\ visitor'.heap[NewNode].nodes = links
            /\ \A k \in 1..Len(links) : visitor.heap[links[k]].cls = "LinkNode"
       /\ \A g \in 1..Len(visitor.heap) :
            g # LeftGroup => visitor'.heap[g] = visitor.heap[g]
    ]_vars

\* A construct holding a paragraph with a text and an image, and a second
\* image, was left: the group with the paragraph is followed by one
\* LinkGroup of the two Links.
C20_Witness ==
  /\ pc = "walk"
  /\ Len(stack) = 1
  /\ Len(visitor.nodes) = 2
  /\ visitor.heap[visitor.nodes[1]].cls = "BlockQuoteNode"
  /\ Len(visitor.heap[visitor.nodes[1]].nodes) = 1
  /\ visitor.heap[visitor.nodes[2]].cls = "LinkGroupNode"
  /\ visitor.heap[visitor.nodes[2]].rst_node = NoneRef
  /\ Len(visitor.heap[visitor.nodes[2]].nodes) = 2

\* ------------------------------------------------------------------- C21

\* the children the leave handler of source node 2 collects: the nodes of
\* the buffer after the placeholder of that node
CallPlaceholder ==
  CHOOSE i \in 1..Len(visitor.nodes) :
    visitor.heap[visitor.nodes[i]].rst_node = RstRef(arg.r)

CallChildren ==
  SubSeq(visitor.nodes, CallPlaceholder + 1, Len(visitor.nodes))

CallBefore == SubSeq(visitor.nodes, 1, CallPlaceholder - 1)

\* the nodes the call has put in the buffer after the untouched prefix
CallAppended ==
  SubSeq(visitor'.nodes, Len(CallBefore) + 1, Len(visitor'.nodes))

ItemEntry(text) == [item |-> TRUE, text |-> text, node |-> 0]

ChildEntry(node) == [item |-> FALSE, text |-> <<>>, node |-> node]

\* what the fold of the children appends, an item being known by its text
RECURSIVE ItemFold(_, _)
ItemFold(children, text) ==
  IF children = <<>>
  THEN IF text # <<>> THEN <<ItemEntry(text)>> ELSE <<>>
  ELSE LET child == visitor.heap[children[1]] IN
       IF child.cls \in {"BulletListNode", "EnumaratedListNode"}
       THEN <<ItemEntry(text), ChildEntry(children[1])>>
              \o ItemFold(Tail(children), <<>>)
       ELSE IF child.cls \in {"LinkNode", "LinkGroupNode"}
       THEN <<ChildEntry(children[1])>> \o ItemFold(Tail(children), text)
       ELSE ItemFold(Tail(children),
                     text \o (IF text # <<>> THEN <<" ">> ELSE <<>>)
                          \o to_gemtext(visitor.heap, children[1]).text)

\* C21: the leave of a list item folds its collected children in order: a
\* Bullet or Enumerated List child appends the current item and then the list
\* and starts a fresh empty item, a Link or Link Group child is appended as
\* it is, the rendering of any other child is added to the text of the
\* current item after one space exactly when that text is not empty, and the
\* trailing item is appended only with a non-empty text; the buffer before
\* the placeholder stays and the children appended keep their order.
C21_ListItemLeave ==
  [][CallDepartListItem =>
       LET expected == ItemFold(CallChildren, <<>>)
           appended == CallAppended
       IN /\ pc' = "returned"
          /\ SubSeq(visitor'.nodes, 1, Len(CallBefore)) = CallBefore
          /\ Len(appended) = Len(expected)
          /\ \A i \in 1..Len(expected) :
               IF expected[i].item
               THEN /\ visitor'.heap[appended[i]].cls = "ListItemNode"
                    /\ visitor'.heap[appended[i]].rawtext = expected[i].text
                    /\ \A j \in 1..Len(CallChildren) :
                         appended[i] # CallChildren[j]
               ELSE /\ appended[i] = expected[i].node
                    /\ visitor'.heap[appended[i]] = visitor.heap[appended[i]]
          /\ \A i, j \in 1..Len(appended) : i # j => appended[i] # appended[j]]_vars

\* a list item that held a text, a nested list and a second text has been
\* left: the item, the list and a second item made for the list are in the
\* buffer
C21_Witness ==
  /\ pc = "returned"
  /\ arg.fn = "depart_list_item"
  /\ Len(visitor.nodes) = 4
  /\ visitor.heap[visitor.nodes[2]].cls = "ListItemNode"
  /\ visitor.heap[visitor.nodes[2]].rawtext = <<"a">>
  /\ visitor.heap[visitor.nodes[3]].cls = "BulletListNode"
  /\ visitor.heap[visitor.nodes[4]].cls = "ListItemNode"
  /\ visitor.heap[visitor.nodes[4]].rawtext = <<"a">>
  /\ visitor.heap[visitor.nodes[4]].rst_node = GemRef(visitor.nodes[3])

\* ------------------------------------------------------------------- C22

\* the node the enter handler of source node 2 created
CallNode == visitor.nodes[CallPlaceholder]

\* the text of a node of the buffer the handler is called on, collapsed
CollapsedAtCall(n) == remove_newlines(visitor.heap[n].rawtext)

\* the node is a child of the figure after the leave
InFigure(n) ==
  \E k \in 1..Len(visitor'.heap[CallNode].nodes) :
    visitor'.heap[CallNode].nodes[k] = n

\* the final pass has made the text of the Paragraph the text of the Link
\* that is the first child of the figure
IsCaptionOfLink(n) ==
  LET fnodes == visitor'.heap[CallNode].nodes IN
  /\ fnodes # <<>>
  /\ visitor.heap[fnodes[1]].cls = "LinkNode"
  /\ visitor.heap[fnodes[1]].rawtext = visitor.heap[fnodes[1]].uri
  /\ visitor'.heap[fnodes[1]].rawtext = visitor.heap[n].rawtext

\* C22: on figure leave a collected Paragraph whose collapsed text equals the
\* collapsed text of a child appended to the figure before it is not a child
\* of the figure, and a Paragraph whose collapsed text equals that of no
\* earlier child is kept (as a child, or as the text the final pass gives
\* the Link).
C22_DuplicateCaptionDropped ==
  [][CallDepartFigure =>
       \A j \in 1..Len(CallChildren) :
         visitor.heap[CallChildren[j]].cls = "ParagraphNode" =>
           /\ (\E i \in 1..(j - 1) :
                 /\ InFigure(CallChildren[i])
                 /\ CollapsedAtCall(CallChildren[i])
                      = CollapsedAtCall(CallChildren[j]))
                => ~InFigure(CallChildren[j])
           /\ (\A i \in 1..(j - 1) :
                 CollapsedAtCall(CallChildren[i])
                   # CollapsedAtCall(CallChildren[j]))
                => \/ InFigure(CallChildren[j])
                   \/ IsCaptionOfLink(CallChildren[j])]_vars

\* ------------------------------------------------------------------- C23

\* C23: the final pass of figure leave: when after the fold the first child
\* is a Link whose text equals its URI and the last child is a Paragraph, the
\* Paragraph is removed and its text becomes the text of the Link; otherwise
\* the folded children stay as they are; the figure is appended to the
\* buffer exactly once, whatever the collected children are, none included.
C23_FinalPass ==
  [][CallDepartFigure =>
       LET folded == FoldFigure(visitor.heap, <<>>, CallChildren)
           merge == /\ folded # <<>>
                    /\ visitor.heap[folded[1]].cls = "LinkNode"
                    /\ visitor.heap[folded[Len(folded)]].cls = "ParagraphNode"
                    /\ visitor.heap[folded[1]].rawtext
                         = visitor.heap[folded[1]].uri
       IN /\ pc' = "returned"
          /\ visitor'.nodes = Append(CallBefore, CallNode)
          /\ IF merge
             THEN /\ visitor'.heap[CallNode].nodes
                       = SubSeq(folded, 1, Len(folded) - 1)
                  /\ visitor'.heap[folded[1]].rawtext
                       = visitor.heap[folded[Len(folded)]].rawtext
             ELSE /\ visitor'.heap[CallNode].nodes = folded
                  /\ \A k \in 1..Len(folded) :
                       visitor'.heap[folded[k]] = visitor.heap[folded[k]]]_vars

\* ------------------------------------------------------------------- C24

\* C24: on admonition leave, only for the untyped admonition a first
\* collected child that is a Title is removed and its text becomes the title
\* of the admonition; for a typed admonition no child is removed and the
\* title is the label of the type; the remaining children, in order, become
\* the body, and the admonition is appended to the buffer exactly once, also
\* when no child was collected.
C24_AdmonitionLeave ==
  [][CallDepartAdmonition =>
       LET type_ == visitor.heap[CallNode].type
           popTitle == /\ type_ = "None"
                       /\ CallChildren # <<>>
                       /\ visitor.heap[CallChildren[1]].cls = "TitleNode"
       IN /\ pc' = "returned"
          /\ visitor'.nodes = Append(CallBefore, CallNode)
          /\ visitor'.heap[CallNode].nodes
               = IF popTitle THEN Tail(CallChildren) ELSE CallChildren
          /\ visitor'.heap[CallNode].title
               = IF popTitle THEN visitor.heap[CallChildren[1]].rawtext
                 ELSE NoneStr
          /\ type_ # "None" =>
               /\ gen_title(visitor'.heap[CallNode])
                    = gen_title(AdmonitionNode(NoneRef, type_))
               /\ gen_title(visitor'.heap[CallNode]) # <<>>
          /\ \A k \in 1..Len(CallChildren) :
               visitor'.heap[CallChildren[k]] = visitor.heap[CallChildren[k]]]_vars

\* ------------------------------------------------------------------- C25

RECURSIVE DecodeArabic(_)
\* the number a word over 0..9 stands for
DecodeArabic(word) ==
  IF word = <<>> THEN 0
  ELSE DecodeArabic(SubSeq(word, 1, Len(word) - 1)) * 10
         + (CHOOSE d \in 0..9 : Digits[d + 1] = word[Len(word)])

\* the lines of a rendering, "" having none
RenderedLines(text) == IF text = <<>> THEN <<>> ELSE SplitLines(text, <<>>)

\* the number written on the line of an item of text "a", between
\* "* " + prefix and suffix + " a"
WrittenNumber(line, attributes) ==
  LET word == SubSeq(line, 3 + Len(attributes.prefix),
                     Len(line) - Len(attributes.suffix) - 2)
  IN IF attributes.enumtype = "arabic" THEN DecodeArabic(word)
     ELSE DecodeAlpha(word)

\* C25: in the rendering of an enumerated list with start s (1 when the
\* source gives none) the child at position k = 0, 1, ... is numbered s + k
\* when it is a list item: the counter advances at every child, a child that
\* is no item renders without a number and the next item skips one.
C25_Numbering ==
  (pc = "returned" /\ arg.fn = "EnumaratedListNode.to_gemtext") =>
    LET s == IF "start" \in DOMAIN arg.attributes THEN arg.attributes.start
             ELSE 1
        lines == RenderedLines(returned.rendering.text)
    IN /\ returned.rendering.ok
       /\ returned.node.start = s
       /\ Len(lines) = Len(arg.shapes)
       /\ \A k \in 1..Len(lines) :
            IF arg.shapes[k].obj.cls = "ListItemNode"
            THEN /\ SubSeq(lines[k], 1, 2 + Len(arg.attributes.prefix))
                      = <<"*", " ">> \o arg.attributes.prefix
                 /\ SubSeq(lines[k],
                           Len(lines[k]) - Len(arg.attributes.suffix) - 1,
                           Len(lines[k]))
                      = arg.attributes.suffix \o <<" ", "a">>
                 /\ WrittenNumber(lines[k], arg.attributes) = s + (k - 1)
            ELSE lines[k] = <<"*", " ", "b">>

\* a list without a start that holds an item, a nested list and an item has
\* been rendered: the second item has the number 3
C25_Witness ==
  /\ pc = "returned"
  /\ arg.fn = "EnumaratedListNode.to_gemtext"
  /\ "start" \notin DOMAIN arg.attributes
  /\ returned.rendering.text
       = <<"*", " ", "1", ".", " ", "a", LF, "*", " ", "b", LF,
           "*", " ", "3", ".", " ", "a">>

\* ------------------------------------------------------------------- C26

\* the source nodes with a line below the collected nodes that are no Title:
\* the paragraphs of the cells
LinedDescendants == {r \in 1..Len(rst) : rst[r].tagname = "paragraph"}

StartLine(r) == rst[r].line

\* start + number of lines of the text - 1
EndLine(r) == rst[r].line + SplitCount(astext(rst, r)) - 1

\* C26: on table leave the text of the block is the lines m - 1 .. M + 1 of
\* the source (1-based, inclusive, without the indentation of the first),
\* m being the least starting line and M the greatest ending line over all
\* the line-carrying descendants of the collected nodes that are no Title,
\* also when one descendant gives both and when there is only one.
C26_TableRange ==
  [][(CallDepartTable /\ LinedDescendants # {}) =>
       LET m == CHOOSE l \in {StartLine(r) : r \in LinedDescendants} :
                  \A r \in LinedDescendants : l <= StartLine(r)
           M == CHOOSE l \in {EndLine(r) : r \in LinedDescendants} :
                  \A r \in LinedDescendants : l >= EndLine(r)
           lines == SplitLines(original_rst, <<>>)
       IN /\ pc' = "returned"
          /\ visitor'.nodes = Append(CallBefore, CallNode)
          /\ visitor'.heap[CallNode].rawtext
               = Join([k \in 1..(M - m + 3) |-> Tail(lines[m - 2 + k])],
                      <<LF>>)]_vars

\* ------------------------------------------------------------------- C27

RECURSIVE TextOfChildren(_)
\* the texts of the children that are texts, one after the other
TextOfChildren(children) ==
  IF children = <<>> THEN <<>>
  ELSE (IF rst[children[1]].tagname = "#text" THEN rst[children[1]].text
        ELSE <<>>)
       \o TextOfChildren(Tail(children))

\* C27: the enter of a reference skips its image children and puts its text
\* children together, collapsed, as the text of the Link; a child of any
\* other kind (emphasis and strong included) raises at once and leaves the
\* buffer as it was; otherwise exactly one Link is appended, with the refuri
\* as URI when there is one and no URI otherwise; the node that accepts text
\* stays the same.
C27_ReferenceEnter ==
  [][CallVisitReference =>
       LET children == rst[arg.r].children
           a == rst[arg.r].attributes
           text == remove_newlines(TextOfChildren(children))
           uri == IF "refuri" \in DOMAIN a THEN a.refuri ELSE NoneStr
       IN /\ visitor'.current = visitor.current
          /\ IF \E i \in 1..Len(children) :
                  rst[children[i]].tagname \notin {"image", "#text"}
             THEN /\ pc' = "raised"
                  /\ visitor'.err = "ValueError"
                  /\ visitor'.nodes = visitor.nodes
                  /\ visitor'.heap = visitor.heap
             ELSE /\ pc' = "returned"
                  /\ Len(visitor'.nodes) = Len(visitor.nodes) + 1
                  /\ SubSeq(visitor'.nodes, 1, Len(visitor.nodes))
                       = visitor.nodes
                  /\ \A n \in 1..Len(visitor.heap) :
                       visitor'.heap[n] = visitor.heap[n]
                  /\ LET link == visitor'.heap[visitor'.nodes[Len(visitor'.nodes)]]
                     IN /\ link.cls = "LinkNode"
                        /\ link.rst_node = RstRef(arg.r)
                        /\ link.uri = uri
                        /\ link.rawtext = IF text # <<>> THEN text ELSE uri]_vars

\* a reference in a paragraph that holds a text, an image and a text on two
\* lines has been entered: the Link has the texts joined and collapsed, and
\* the paragraph still accepts the text
C27_Witness ==
  /\ pc = "returned"
  /\ arg.fn = "visit_reference"
  /\ visitor.current = 1
  /\ Len(visitor.nodes) = 2
  /\ Len(rst[3].children) = 3
  /\ rst[rst[3].children[2]].tagname = "image"
  /\ visitor.heap[visitor.nodes[2]].rawtext = <<"a", "b", " ", "c">>
  /\ visitor.heap[visitor.nodes[2]].uri = Uri

\* ------------------------------------------------------------------- C28

\* the buffer still starts with the nodes it held when the frame's node was
\* entered, the position of the placeholder of that node being the next one
KeepsPrefix(nodes, frame) ==
  /\ Len(nodes) >= Len(frame.before.nodes)
  /\ SubSeq(nodes, 1, Len(frame.before.nodes)) = frame.before.nodes

\* C28: while a construct is open, and when its leave returns, the buffer
\* positions before the placeholder its enter appended hold the same nodes in
\* the same order; an enter appends at most one new node to the buffer and
\* changes nothing else in it; a leave changes the buffer only from the
\* placeholder of the node left onwards.
C28_StackDiscipline ==
  /\ [](\A i \in 1..Len(stack) : KeepsPrefix(visitor.nodes, stack[i]))
  /\ [][IsEnter => \/ visitor'.nodes = visitor.nodes
                   \/ visitor'.nodes = Append(visitor.nodes, NewNode)]_vars
  /\ [][IsLeave => \A i \in 1..Len(stack) :
                     KeepsPrefix(visitor'.nodes, stack[i])]_vars

\* a raw block of a format that is dropped has been left inside a list
\* item: its placeholder is gone, and the buffer is what the enter of the
\* item found, the placeholder of the list included, and the placeholder of
\* the item
C28_Witness ==
  /\ pc = "walk"
  /\ Len(stack) = 3
  /\ rst[Top.id].tagname = "list_item"
  /\ Top.before.nodes # <<>>
  /\ Len(rst[Top.id].children) = 1
  /\ rst[rst[Top.id].children[1]].tagname = "raw"
  /\ AllVisited
  /\ visitor.nodes = Append(Top.before.nodes, Len(Top.before.heap) + 1)

====
